---- MODULE Spec2Model ----
(***************************************************************************)
(* A model of sfdc-auth (main.go): the OAuth2 authorization-code flow of   *)
(* runAuth, the /callback handler goroutines, the listener goroutine and   *)
(* the token exchange.  Strings are sequences of one-character strings, so *)
(* that URL escaping, base64 and formatting are computed, not assumed.     *)
(***************************************************************************)
EXTENDS Integers, Sequences, FiniteSets, TLC

(***************************************************************************)
(* State                                                                   *)
(***************************************************************************)

VARIABLES
    flagClientID, flagClientSecret, flagPort, flagQuiet,  \* the CLI flags
    domainArg,     \* the value of a --domain argument of the command line, if any
    clientID, clientSecret, state, redirectURI, port,     \* the session globals
    authCode, authError,                                  \* the callback outcome
    pc,            \* where runAuth is
    proc,          \* "running", or how the process ended: "exit0", "exit1"
    srv,           \* the listener goroutine: none, spawned, binding, listening, closed
    hpc, hreq, hresp, hstored,  \* the handler goroutines, one per connection
    signalledBy,   \* the handler whose send on serverDone runAuth received (0: none)
    authURL,       \* runAuth's local authURL
    out,           \* what the process wrote to stdout and stderr, in order
    posts,         \* the calls of http.PostForm: the URL and the form posted
    exchange,      \* the result of exchangeCodeForTokens, and in hops the requests its
                   \* HTTP client made for the redirects it followed
    jsonOutput,    \* the TokenResponse value runAuth printed
    issued         \* the tokens generateState has returned, in the order of the calls

vars ==
    <<flagClientID, flagClientSecret, flagPort, flagQuiet, domainArg, clientID, clientSecret,
      state, redirectURI, port, authCode, authError, pc, proc, srv, hpc, hreq, hresp,
      hstored, signalledBy, authURL, out, posts, exchange, jsonOutput, issued>>

flagVars == <<flagClientID, flagClientSecret, flagPort, flagQuiet, domainArg>>

sessionVars == <<clientID, clientSecret, state, redirectURI, port>>

handlerVars == <<hpc, hreq, hresp, hstored>>

exchangeVars == <<posts, exchange, jsonOutput>>

(***************************************************************************)
(* Strings                                                                 *)
(***************************************************************************)

\* The printable ASCII characters in code order: Ascii[i] has code 31 + i
\* (code 96, the grave accent, cannot be written in a TLA+ string).
Ascii == <<" ","!","\"","#","$","%","&","'","(",")","*","+",",","-",".","/","0","1","2","3","4","5","6","7","8","9",":",";","<","=",">","?","@","A","B","C","D","E","F","G","H","I","J","K","L","M","N","O","P","Q","R","S","T","U","V","W","X","Y","Z","[","\\","]","^","_","GRAVE","a","b","c","d","e","f","g","h","i","j","k","l","m","n","o","p","q","r","s","t","u","v","w","x","y","z","{","|","}","~">>

CharCode(c) == 31 + (CHOOSE i \in 1..Len(Ascii) : Ascii[i] = c)

Digits == <<"0","1","2","3","4","5","6","7","8","9">>

upperhex == <<"0","1","2","3","4","5","6","7","8","9","A","B","C","D","E","F">>

IsAlnum(c) ==
    LET n == CharCode(c)
    IN  \/ (n >= 48 /\ n <= 57)
        \/ (n >= 65 /\ n <= 90)
        \/ (n >= 97 /\ n <= 122)

\* Go's string comparison a < b: bytewise lexicographic.
RECURSIVE StrLess(_, _)
StrLess(a, b) ==
    IF b = <<>> THEN FALSE
    ELSE IF a = <<>> THEN TRUE
    ELSE IF Head(a) = Head(b) THEN StrLess(Tail(a), Tail(b))
    ELSE CharCode(Head(a)) < CharCode(Head(b))

\* strings.Contains(s, sub)
Contains(s, sub) ==
    \/ sub = <<>>
    \/ \E i \in 1..(Len(s) - Len(sub) + 1) :
          s[i] = sub[1] /\ SubSeq(s, i, i + Len(sub) - 1) = sub

HasPrefix(s, p) == Len(s) >= Len(p) /\ SubSeq(s, 1, Len(p)) = p

\* strconv formatting of a non-negative integer (the %d verb).
RECURSIVE Itoa(_)
Itoa(n) == IF n < 10 THEN <<Digits[n + 1]>> ELSE Itoa(n \div 10) \o <<Digits[(n % 10) + 1]>>

(***************************************************************************)
(* net/url: QueryEscape and Values.Encode                                  *)
(***************************************************************************)

\* url.shouldEscape(c, encodeQueryComponent): unreserved characters pass.
shouldEscape(c) == ~(IsAlnum(c) \/ c \in {"-", "_", ".", "~"})

EscapeChar(c) ==
    IF c = " " THEN <<"+">>
    ELSE IF shouldEscape(c)
         THEN <<"%", upperhex[(CharCode(c) \div 16) + 1], upperhex[(CharCode(c) % 16) + 1]>>
         ELSE <<c>>

RECURSIVE QueryEscape(_)
QueryEscape(s) == IF s = <<>> THEN <<>> ELSE EscapeChar(Head(s)) \o QueryEscape(Tail(s))

\* url.Values is map[string][]string; Add appends to the key's list.
EmptyValues == [k \in {} |-> <<>>]

ValuesAdd(v, key, value) ==
    IF key \in DOMAIN v
    THEN [v EXCEPT ![key] = Append(@, value)]
    ELSE [k \in DOMAIN v \cup {key} |-> IF k = key THEN <<value>> ELSE v[k]]

\* Set replaces the key's list.
ValuesSet(v, key, value) ==
    [k \in DOMAIN v \cup {key} |-> IF k = key THEN <<value>> ELSE v[k]]

\* Values.Get: the first value of the key, "" when absent.
ValuesGet(v, key) ==
    IF key \in DOMAIN v /\ v[key] # <<>> THEN v[key][1] ELSE <<>>

RECURSIVE SortedKeys(_)
SortedKeys(ks) ==
    IF ks = {} THEN <<>>
    ELSE LET m == CHOOSE k \in ks : \A o \in ks \ {k} : StrLess(k, o)
         IN  <<m>> \o SortedKeys(ks \ {m})

RECURSIVE EncodeKey(_, _, _)
EncodeKey(key, vals, first) ==
    IF vals = <<>> THEN <<>>
    ELSE (IF first THEN <<>> ELSE <<"&">>)
         \o QueryEscape(key) \o <<"=">> \o QueryEscape(Head(vals))
         \o EncodeKey(key, Tail(vals), FALSE)

RECURSIVE EncodeKeys(_, _, _)
EncodeKeys(v, keys, first) ==
    IF keys = <<>> THEN <<>>
    ELSE LET part == EncodeKey(Head(keys), v[Head(keys)], first)
         IN  part \o EncodeKeys(v, Tail(keys), first /\ part = <<>>)

\* Values.Encode: "k=v" pairs joined by "&", sorted by key.
ValuesEncode(v) == EncodeKeys(v, SortedKeys(DOMAIN v), TRUE)

(***************************************************************************)
(* encoding/base64: URLEncoding (padded)                                   *)
(***************************************************************************)

encodeURL == <<"A","B","C","D","E","F","G","H","I","J","K","L","M","N","O","P","Q","R","S","T","U","V","W","X","Y","Z","a","b","c","d","e","f","g","h","i","j","k","l","m","n","o","p","q","r","s","t","u","v","w","x","y","z","0","1","2","3","4","5","6","7","8","9","-","_">>

RECURSIVE Base64URLEncode(_)
Base64URLEncode(b) ==
    IF Len(b) = 0 THEN <<>>
    ELSE IF Len(b) = 1
    THEN <<encodeURL[(b[1] \div 4) + 1], encodeURL[((b[1] % 4) * 16) + 1], "=", "=">>
    ELSE IF Len(b) = 2
    THEN <<encodeURL[(b[1] \div 4) + 1],
           encodeURL[((b[1] % 4) * 16 + (b[2] \div 16)) + 1],
           encodeURL[((b[2] % 16) * 4) + 1], "=">>
    ELSE <<encodeURL[(b[1] \div 4) + 1],
           encodeURL[((b[1] % 4) * 16 + (b[2] \div 16)) + 1],
           encodeURL[((b[2] % 16) * 4 + (b[3] \div 64)) + 1],
           encodeURL[(b[3] % 64) + 1]>>
         \o Base64URLEncode(SubSeq(b, 4, Len(b)))

\* []byte(s) for an ASCII string.
Bytes(s) == [i \in 1..Len(s) |-> CharCode(s[i])]


\* A character outside printable ASCII that a TLA+ string cannot hold is
\* written as the one-character string "U+XXXX" of its code point.

\* unicode.IsSpace, which strings.TrimSpace uses: the white space of Latin-1
\* (\t, \n, \v, \f, \r, blank, U+0085, U+00A0) and the Unicode spaces.
IsSpace(c) ==
    c \in {" ", "\t", "\n", "\r", "\f", "U+000B", "U+0085", "U+00A0", "U+1680",
           "U+2000", "U+2001", "U+2002", "U+2003", "U+2004", "U+2005", "U+2006",
           "U+2007", "U+2008", "U+2009", "U+200A", "U+2028", "U+2029", "U+202F",
           "U+205F", "U+3000"}

RECURSIVE TrimLeft(_)
TrimLeft(s) == IF s # <<>> /\ IsSpace(Head(s)) THEN TrimLeft(Tail(s)) ELSE s

RECURSIVE TrimRight(_)
TrimRight(s) ==
    IF s # <<>> /\ IsSpace(s[Len(s)]) THEN TrimRight(SubSeq(s, 1, Len(s) - 1)) ELSE s

TrimSpace(s) == TrimRight(TrimLeft(s))

(***************************************************************************)
(* Program constants                                                       *)
(***************************************************************************)

salesforceAuthURL == <<"h","t","t","p","s",":","/","/","l","o","g","i","n",".","s","a","l","e","s","f","o","r","c","e",".","c","o","m","/","s","e","r","v","i","c","e","s","/","o","a","u","t","h","2","/","a","u","t","h","o","r","i","z","e">>

\* The token endpoint without TLS.
salesforceTokenURLPlain == <<"h","t","t","p",":","/","/","l","o","g","i","n",".","s","a","l","e","s","f","o","r","c","e",".","c","o","m","/","s","e","r","v","i","c","e","s","/","o","a","u","t","h","2","/","t","o","k","e","n">>

salesforceTokenURL == <<"h","t","t","p","s",":","/","/","l","o","g","i","n",".","s","a","l","e","s","f","o","r","c","e",".","c","o","m","/","s","e","r","v","i","c","e","s","/","o","a","u","t","h","2","/","t","o","k","e","n">>

defaultPort == <<"8","0","8","0">>

\* The failure texts handleCallback stores in authError.
InvalidStateParameter == <<"I","n","v","a","l","i","d"," ","s","t","a","t","e"," ","p","a","r","a","m","e","t","e","r">>

NoAuthorizationCode == <<"N","o"," ","a","u","t","h","o","r","i","z","a","t","i","o","n"," ","c","o","d","e"," ","r","e","c","e","i","v","e","d">>

\* The length of the random state, make([]byte, 32).
StateBytes == 32

StatusOK == 200

StatusBadRequest == 400

StatusNotFound == 404

(***************************************************************************)
(* Bounds and the inputs of a run                                          *)
(***************************************************************************)

\* Connections the listener serves in one run (one goroutine each).
MaxHandlers == 2

\* Redirects the HTTP client is sent through while it makes the token request.
MaxRedirects == 1

NoString == <<>>

\* The provider domain of the two endpoint constants.
defaultSalesforceDomain == <<"l","o","g","i","n",".","s","a","l","e","s","f","o","r","c","e",".","c","o","m">>

\* The error of the flag parser for an argument that is none of the four
\* flags init registers (the README documents --domain; init does not
\* register it).
UnknownDomainFlag == <<"u","n","k","n","o","w","n"," ","f","l","a","g",":"," ","-","-","d","o","m","a","i","n">>

\* The --client-id / --client-secret flags: both given, or left to the prompt.
GivenCredentials == [id |-> <<"m","y"," ","i","d","&","1">>, secret |-> <<"S","3","c","r","3","t","/","9">>]

PromptedCredentials == [id |-> NoString, secret |-> NoString]

\* The command lines explored: every value of every flag, and every pair of
\* values of two flags, occurs in one of them.
Configurations ==
    { [cred |-> GivenCredentials, port |-> defaultPort, quiet |-> FALSE,
       domain |-> NoString],
      [cred |-> GivenCredentials, port |-> <<"9","0","9","0">>, quiet |-> TRUE,
       domain |-> NoString],
      [cred |-> PromptedCredentials, port |-> defaultPort, quiet |-> TRUE,
       domain |-> NoString],
      [cred |-> PromptedCredentials, port |-> <<"9","0","9","0">>, quiet |-> FALSE,
       domain |-> NoString],
      [cred |-> GivenCredentials, port |-> defaultPort, quiet |-> FALSE,
       domain |-> <<"c","o","m","p","a","n","y",".","m","y",".","s","a","l","e","s","f","o","r","c","e",".","c","o","m">>] }

\* What the terminal delivers to getClientCredentials: the client ID line
\* (ReadString up to '\n') and the hidden secret (ReadPassword), or a read error.
PromptInputs ==
    { [id |-> <<"\f","c","i","d","2","U+00A0","\r","\n">>, idErr |-> FALSE, secret |-> <<" ","p","w","=","2","\t">>, secretErr |-> FALSE],
      [id |-> <<" ","\f","\n">>, idErr |-> FALSE, secret |-> <<"p","w">>, secretErr |-> FALSE],
      [id |-> NoString, idErr |-> TRUE, secret |-> <<"p","w">>, secretErr |-> FALSE],
      [id |-> <<"c","i","d","2","\n">>, idErr |-> FALSE, secret |-> <<" ","U+000B","U+2003">>, secretErr |-> FALSE],
      [id |-> <<"c","i","d","2","\n">>, idErr |-> FALSE, secret |-> NoString, secretErr |-> TRUE] }

\* What crypto/rand.Read delivers to the k-th call of generateState: 32
\* bytes, or an error.  The bytes of different calls differ (the random
\* source does not repeat itself).
RandomSourcesOfCall(k) ==
    { [err |-> FALSE, b |-> [i \in 1..StateBytes |-> (i * 37 + 11 * k) % 256]],
      [err |-> TRUE, b |-> [i \in 1..StateBytes |-> 0]] }

RandomSources == RandomSourcesOfCall(1)

\* time.Now(), as seconds and nanoseconds since the epoch (UnixNano does not
\* fit TLC's integers, so it is kept in two halves).
Clocks == { [sec |-> 1700000000, nsec |-> 123456789] }

\* The readings of the clock in repeated calls of generateState: a call may
\* read what an earlier call read (the resolution of the wall clock, or a
\* clock that was set back) or a later time.
CallClocks == Clocks \cup { [sec |-> 1700000000, nsec |-> 123456790] }

\* Calls of generateState in one process, when it is called repeatedly.
MaxCalls == 3

(***************************************************************************)
(* generateState and buildAuthURL                                          *)
(***************************************************************************)

\* The %d formatting of t.UnixNano() = sec * 10^9 + nsec.
RECURSIVE ZeroPad(_, _)
ZeroPad(s, n) == IF Len(s) >= n THEN s ELSE ZeroPad(<<"0">> \o s, n)

FormatUnixNano(t) ==
    IF t.sec = 0 THEN Itoa(t.nsec) ELSE Itoa(t.sec) \o ZeroPad(Itoa(t.nsec), 9)

\* generateState giving up with an empty token when the random source fails.
generateStateOrEmpty(rnd, now) ==
    IF rnd.err
    THEN NoString
    ELSE Base64URLEncode(rnd.b)

\* generateState, lines 209-218: 32 random bytes, or the clock when the random
\* source fails, in padded URL-safe base64.
generateState(rnd, now) ==
    IF rnd.err
    THEN Base64URLEncode(Bytes(<<"s","t","a","t","e","_">> \o FormatUnixNano(now)))
    ELSE Base64URLEncode(rnd.b)

\* An authorization URL that also carries the client secret.
buildAuthURLWithSecret(cID, rURI, st) ==
    LET p1 == ValuesAdd(EmptyValues, <<"r","e","s","p","o","n","s","e","_","t","y","p","e">>, <<"c","o","d","e">>)
        p2 == ValuesAdd(p1, <<"c","l","i","e","n","t","_","i","d">>, cID)
        p3 == ValuesAdd(p2, <<"c","l","i","e","n","t","_","s","e","c","r","e","t">>, clientSecret)
        p4 == ValuesAdd(p3, <<"r","e","d","i","r","e","c","t","_","u","r","i">>, rURI)
        p5 == ValuesAdd(p4, <<"s","t","a","t","e">>, st)
        p6 == ValuesAdd(p5, <<"s","c","o","p","e">>, <<"f","u","l","l"," ","r","e","f","r","e","s","h","_","t","o","k","e","n">>)
    IN  salesforceAuthURL \o <<"?">> \o ValuesEncode(p6)

buildAuthURL(cID, rURI, st) ==
    LET p1 == ValuesAdd(EmptyValues, <<"r","e","s","p","o","n","s","e","_","t","y","p","e">>, <<"c","o","d","e">>)
        p2 == ValuesAdd(p1, <<"c","l","i","e","n","t","_","i","d">>, cID)
        p3 == ValuesAdd(p2, <<"r","e","d","i","r","e","c","t","_","u","r","i">>, rURI)
        p4 == ValuesAdd(p3, <<"s","t","a","t","e">>, st)
        p5 == ValuesAdd(p4, <<"s","c","o","p","e">>, <<"f","u","l","l"," ","r","e","f","r","e","s","h","_","t","o","k","e","n">>)
    IN  salesforceAuthURL \o <<"?">> \o ValuesEncode(p5)

\* The port and redirect URI of init() and of runAuth's "Update port".
ListenAddr(p) == <<":">> \o p

\* A redirect URI that stays on the default port.
RedirectURIOfDefaultPort(p) == <<"h","t","t","p",":","/","/","l","o","c","a","l","h","o","s","t",":">> \o defaultPort \o <<"/","c","a","l","l","b","a","c","k">>

RedirectURIFor(p) == <<"h","t","t","p",":","/","/","l","o","c","a","l","h","o","s","t",":">> \o p \o <<"/","c","a","l","l","b","a","c","k">>


(***************************************************************************)
(* Callback requests and token-endpoint responses                          *)
(***************************************************************************)

callbackPath == <<"/","c","a","l","l","b","a","c","k">>

Query1(k1, v1) == ValuesAdd(EmptyValues, k1, v1)

Query2(k1, v1, k2, v2) == ValuesAdd(Query1(k1, v1), k2, v2)

\* The requests a browser, the provider or anybody on the machine may send to
\* the listener; st is the state token of the run.
Requests(st) ==
    { [path |-> callbackPath, query |-> Query2(<<"s","t","a","t","e">>, st, <<"c","o","d","e">>, <<"a","P","r","x","!","c","1">>)],
      [path |-> callbackPath, query |-> Query2(<<"s","t","a","t","e">>, st, <<"c","o","d","e">>, <<"a","P","r","x","!","c","2">>)],
      [path |-> callbackPath, query |-> Query1(<<"s","t","a","t","e">>, st)],
      [path |-> callbackPath, query |-> Query2(<<"s","t","a","t","e">>, <<"f","o","r","g","e","d">>, <<"c","o","d","e">>, <<"a","P","r","x","!","c","3">>)],
      [path |-> callbackPath, query |-> Query2(<<"s","t","a","t","e">>, NoString, <<"c","o","d","e">>, <<"a","P","r","x","!","c","3">>)],
      [path |-> callbackPath, query |-> Query1(<<"c","o","d","e">>, <<"a","P","r","x","!","c","3">>)],
      [path |-> callbackPath,
       query |-> ValuesAdd(ValuesAdd(Query2(<<"e","r","r","o","r">>, <<"a","c","c","e","s","s","_","d","e","n","i","e","d">>,
                                            <<"e","r","r","o","r","_","d","e","s","c","r","i","p","t","i","o","n">>, <<"e","n","d","-","u","s","e","r"," ","d","e","n","i","e","d">>),
                                     <<"s","t","a","t","e">>, st), <<"c","o","d","e">>, <<"a","P","r","x","!","c","2">>)],
      [path |-> <<"/","f","a","v","i","c","o","n",".","i","c","o">>, query |-> EmptyValues] }

NoRequest == [path |-> NoString, query |-> EmptyValues]

\* The values of a JSON text as the decoder meets them: a string with its
\* characters, or a value of another kind with its text.
StringValue(s) == [kind |-> "string", text |-> s]

NumberValue(t) == [kind |-> "number", text |-> t]

NullValue == [kind |-> "null", text |-> <<"n","u","l","l">>]

\* A JSON object as the decoder meets it: the sequence of its <<name, value>>
\* members in the order of the body.
JSONObject(members) == members

\* What http.PostForm gets back for one request: a transport error, or an
\* answer with a status, the Location header it may carry, and a body.  Of
\* the body, value is the kind of the first JSON value that can be read from
\* it ("none" when the body is empty or starts with text that is no JSON
\* value), obj the members of that value when it is an object, and trailing
\* tells that more text follows the first value.
TransportError ==
    [netErr |-> TRUE, status |-> 0, location |-> NoString, value |-> "none",
     trailing |-> FALSE, obj |-> JSONObject(<<>>)]

Response(status, value, trailing, obj) ==
    [netErr |-> FALSE, status |-> status, location |-> NoString, value |-> value,
     trailing |-> trailing, obj |-> obj]

Redirect(status, location) ==
    [netErr |-> FALSE, status |-> status, location |-> location, value |-> "none",
     trailing |-> FALSE, obj |-> JSONObject(<<>>)]

\* Where the answers that redirect send the client.
RedirectLocation == <<"h","t","t","p","s",":","/","/","n","a","1",".","s","a","l","e","s","f","o","r","c","e",".","c","o","m","/","s","e","r","v","i","c","e","s","/","o","a","u","t","h","2","/","t","o","k","e","n">>

\* The answers of the model: the transport error; 400 and 201 with an object;
\* 302 without a Location, and 302 and 307 with one; and 200 with a body that
\* is no JSON, the array [], the literal null, or an object: the full answer
\* (with a member named ACCESS_TOKEN before access_token and a null member),
\* the three tokens followed by a member named ACCESS_TOKEN, the three tokens
\* with issued_at a number, an object without refresh_token, an object
\* followed by more text, and an object whose access_token is a number.
TokenResponses ==
    { TransportError,
      Response(400, "object", FALSE,
               JSONObject(<< <<<<"e","r","r","o","r">>, StringValue(<<"i","n","v","a","l","i","d","_","g","r","a","n","t">>)>> >>)),
      Response(201, "object", FALSE,
               JSONObject(<< <<<<"a","c","c","e","s","s","_","t","o","k","e","n">>, StringValue(<<"A","T">>)>>,
                             <<<<"r","e","f","r","e","s","h","_","t","o","k","e","n">>, StringValue(<<"R","T">>)>>,
                             <<<<"i","n","s","t","a","n","c","e","_","u","r","l">>, StringValue(<<"h","t","t","p","s",":","/","/","x",".","m","y",".","s","a","l","e","s","f","o","r","c","e",".","c","o","m">>)>> >>)),
      Redirect(302, NoString),
      Redirect(302, RedirectLocation),
      Redirect(307, RedirectLocation),
      Response(200, "none", FALSE, JSONObject(<<>>)),
      Response(200, "array", FALSE, JSONObject(<<>>)),
      Response(200, "null", FALSE, JSONObject(<<>>)),
      Response(200, "object", FALSE,
               JSONObject(<< <<<<"A","C","C","E","S","S","_","T","O","K","E","N">>, StringValue(<<"s","t","a","l","e">>)>>,
                             <<<<"a","c","c","e","s","s","_","t","o","k","e","n">>, StringValue(<<"0","0","D","!","A","Q","<","a",">">>)>>,
                             <<<<"r","e","f","r","e","s","h","_","t","o","k","e","n">>, StringValue(<<"5","A","e","p","\"","\t","8">>)>>,
                             <<<<"R","e","f","r","e","s","h","_","T","o","k","e","n">>, NullValue>>,
                             <<<<"i","n","s","t","a","n","c","e","_","u","r","l">>, StringValue(<<"h","t","t","p","s",":","/","/","x",".","m","y",".","s","a","l","e","s","f","o","r","c","e",".","c","o","m">>)>>,
                             <<<<"i","d">>, StringValue(<<"h","t","t","p","s",":","/","/","l","o","g","i","n",".","s","a","l","e","s","f","o","r","c","e",".","c","o","m","/","i","d","/","0","0","D","/","0","0","5">>)>>,
                             <<<<"t","o","k","e","n","_","t","y","p","e">>, StringValue(<<"B","e","a","r","e","r">>)>>,
                             <<<<"i","s","s","u","e","d","_","a","t">>, StringValue(<<"1","7","0","0","0","0","0","0","0","0","1","2","3">>)>>,
                             <<<<"s","i","g","n","a","t","u","r","e">>, StringValue(<<"s","i","g","=">>)>> >>)),
      Response(200, "object", FALSE,
               JSONObject(<< <<<<"a","c","c","e","s","s","_","t","o","k","e","n">>, StringValue(<<"X">>)>>,
                             <<<<"r","e","f","r","e","s","h","_","t","o","k","e","n">>, StringValue(<<"R","T">>)>>,
                             <<<<"i","n","s","t","a","n","c","e","_","u","r","l">>, StringValue(<<"h","t","t","p","s",":","/","/","x",".","m","y",".","s","a","l","e","s","f","o","r","c","e",".","c","o","m">>)>>,
                             <<<<"A","C","C","E","S","S","_","T","O","K","E","N">>, StringValue(<<"s","t","a","l","e">>)>> >>)),
      Response(200, "object", FALSE,
               JSONObject(<< <<<<"a","c","c","e","s","s","_","t","o","k","e","n">>, StringValue(<<"A","T">>)>>,
                             <<<<"r","e","f","r","e","s","h","_","t","o","k","e","n">>, StringValue(<<"R","T">>)>>,
                             <<<<"i","n","s","t","a","n","c","e","_","u","r","l">>, StringValue(<<"h","t","t","p","s",":","/","/","x",".","m","y",".","s","a","l","e","s","f","o","r","c","e",".","c","o","m">>)>>,
                             <<<<"i","s","s","u","e","d","_","a","t">>, NumberValue(<<"1","7","0","0","0","0","0","0","0","0">>)>> >>)),
      Response(200, "object", FALSE,
               JSONObject(<< <<<<"a","c","c","e","s","s","_","t","o","k","e","n">>, StringValue(<<"A","T">>)>>,
                             <<<<"i","n","s","t","a","n","c","e","_","u","r","l">>, StringValue(<<"h","t","t","p","s",":","/","/","x",".","m","y",".","s","a","l","e","s","f","o","r","c","e",".","c","o","m">>)>>,
                             <<<<"e","x","p","i","r","e","s","_","i","n">>, NumberValue(<<"7","2","0","0">>)>> >>)),
      Response(200, "object", TRUE,
               JSONObject(<< <<<<"a","c","c","e","s","s","_","t","o","k","e","n">>, StringValue(<<"A","T">>)>> >>)),
      Response(200, "object", FALSE,
               JSONObject(<< <<<<"a","c","c","e","s","s","_","t","o","k","e","n">>, NumberValue(<<"1">>)>> >>)) }

(***************************************************************************)
(* Initial state                                                           *)
(***************************************************************************)

Handlers == 1..MaxHandlers

\* One write to stdout (fmt.Print*) or stderr (log.*): the format and its arguments.
Line(stream, fmt, args) == [stream |-> stream, fmt |-> fmt, args |-> args]

NoResponse == [status |-> 0, body |-> NoString]

NothingStored == [error |-> NoString, wroteCode |-> FALSE, code |-> NoString]

NoTokens == [AccessToken |-> NoString, RefreshToken |-> NoString, InstanceURL |-> NoString]

NoTokenResponse == Response(0, "none", FALSE, JSONObject(<<>>))

NoExchange == [called |-> FALSE, code |-> NoString, hops |-> <<>>, resp |-> NoTokenResponse,
               kind |-> "none", tokenResp |-> NoTokens]

NoOutput == [printed |-> FALSE, result |-> NoTokens, text |-> NoString]

Init ==
    /\ \E c \in Configurations :
          /\ flagClientID = c.cred.id
          /\ flagClientSecret = c.cred.secret
          /\ flagPort = c.port
          /\ flagQuiet = c.quiet
          /\ domainArg = c.domain
    /\ clientID = NoString
    /\ clientSecret = NoString
    /\ state = NoString
    /\ port = ListenAddr(defaultPort)
    /\ redirectURI = RedirectURIFor(defaultPort)
    /\ authCode = NoString
    /\ authError = NoString
    /\ pc = "start"
    /\ proc = "running"
    /\ srv = "none"
    /\ hpc = [h \in Handlers |-> "idle"]
    /\ hreq = [h \in Handlers |-> NoRequest]
    /\ hresp = [h \in Handlers |-> NoResponse]
    /\ hstored = [h \in Handlers |-> NothingStored]
    /\ signalledBy = 0
    /\ authURL = NoString
    /\ out = <<>>
    /\ posts = <<>>
    /\ exchange = NoExchange
    /\ jsonOutput = NoOutput
    /\ issued = <<>>


(***************************************************************************)
(* runAuth up to the wait, and the listener goroutine                      *)
(***************************************************************************)

\* getClientCredentials: the prompts it prints, the globals it sets, its error.
getClientCredentials(in, cid0, sec0) ==
    LET p1 == <<Line("stdout", "Enter Salesforce Client ID: ", <<>>)>>
        p2 == p1 \o <<Line("stdout", "Enter Salesforce Client Secret: ", <<>>)>>
        p3 == p2 \o <<Line("stdout", "\n", <<>>)>>
        cid == TrimSpace(in.id)
        sec == TrimSpace(in.secret)
    IN  IF in.idErr
        THEN [err |-> "error reading client ID: %v", clientID |-> cid0,
              clientSecret |-> sec0, lines |-> p1]
        ELSE IF cid = NoString
        THEN [err |-> "client ID cannot be empty", clientID |-> cid,
              clientSecret |-> sec0, lines |-> p1]
        ELSE IF in.secretErr
        THEN [err |-> "error reading client secret: %v", clientID |-> cid,
              clientSecret |-> sec0, lines |-> p2]
        ELSE IF sec = NoString
        THEN [err |-> "client secret cannot be empty", clientID |-> cid,
              clientSecret |-> sec, lines |-> p3]
        ELSE [err |-> "", clientID |-> cid, clientSecret |-> sec, lines |-> p3]

Banner ==
    IF flagQuiet THEN <<>>
    ELSE <<Line("stdout", "Salesforce OAuth2 Authentication CLI\n", <<>>),
           Line("stdout", "====================================\n", <<>>)>>

\* main, lines 82-86: rootCmd.Execute parses the command line against the
\* flags of init (lines 76-79).  An argument --domain is none of them: Execute
\* prints the error and the usage and returns the error, and main ends the
\* process with log.Fatal before runAuth is called.
RejectUnknownFlag ==
    /\ proc = "running"
    /\ pc = "start"
    /\ domainArg # NoString
    /\ out' = out \o <<Line("stderr", "Error: %s\n", <<UnknownDomainFlag>>),
                       Line("stderr", "%s\n (usage)", <<>>),
                       Line("stderr", "%v\n", <<UnknownDomainFlag>>)>>
    /\ pc' = "execute"
    /\ proc' = "exit1"
    /\ UNCHANGED <<flagVars, issued, sessionVars, authCode, authError, srv, handlerVars,
                   signalledBy, authURL, exchangeVars>>

\* runAuth, lines 88-124: banner, credentials, port, state, and the start of
\* the listener goroutine.
Configure ==
    /\ proc = "running"
    /\ pc = "start"
    /\ domainArg = NoString
    /\ \E in \in PromptInputs, rnd \in RandomSources, now \in Clocks :
          LET prompted == flagClientID = NoString \/ flagClientSecret = NoString
              got == IF prompted
                     THEN getClientCredentials(in, flagClientID, flagClientSecret)
                     ELSE [err |-> "", clientID |-> flagClientID,
                           clientSecret |-> flagClientSecret, lines |-> <<>>]
          IN  /\ clientID' = got.clientID
              /\ clientSecret' = got.clientSecret
              /\ IF got.err # ""
                 THEN /\ out' = out \o Banner \o got.lines
                                \o <<Line("stderr", "Error getting client credentials: %v\n",
                                          <<>>)>>
                      /\ proc' = "exit1"
                      /\ UNCHANGED <<state, redirectURI, port, pc, srv, issued>>
                 ELSE /\ out' = out \o Banner \o got.lines
                      /\ port' = IF flagPort # defaultPort THEN ListenAddr(flagPort) ELSE port
                      /\ redirectURI' = IF flagPort # defaultPort
                                        THEN RedirectURIFor(flagPort) ELSE redirectURI
                      /\ state' = generateState(rnd, now)
                      /\ issued' = Append(issued, generateState(rnd, now))
                      /\ srv' = "spawned"
                      /\ pc' = "sleep"
                      /\ UNCHANGED proc
    /\ UNCHANGED <<flagVars, authCode, authError, handlerVars, signalledBy, authURL,
                   exchangeVars>>

\* The goroutine of lines 117-124, first half: the "Starting local server" line.
ServerAnnounce ==
    /\ proc = "running"
    /\ srv = "spawned"
    /\ srv' = "binding"
    /\ out' = IF flagQuiet THEN out
              ELSE Append(out, Line("stdout",
                                    "Starting local server on %s for OAuth callback...\n",
                                    <<port>>))
    /\ UNCHANGED <<flagVars, issued, sessionVars, authCode, authError, pc, proc, handlerVars,
                   signalledBy, authURL, exchangeVars>>

\* server.ListenAndServe binds the address and serves.
ServerListen ==
    /\ proc = "running"
    /\ srv = "binding"
    /\ srv' = "listening"
    /\ UNCHANGED <<flagVars, issued, sessionVars, authCode, authError, pc, proc, handlerVars,
                   signalledBy, authURL, out, exchangeVars>>

\* server.ListenAndServe fails to bind (the port is taken): log.Fatalf.
ServerBindFails ==
    /\ proc = "running"
    /\ srv = "binding"
    /\ srv' = "closed"
    /\ out' = Append(out, Line("stderr", "Server failed to start: %v\n", <<port>>))
    /\ proc' = "exit1"
    /\ UNCHANGED <<flagVars, issued, sessionVars, authCode, authError, pc, handlerVars,
                   signalledBy, authURL, exchangeVars>>

\* runAuth, lines 126-134: after the sleep, build the URL and present it.
PresentURL ==
    /\ proc = "running"
    /\ pc = "sleep"
    /\ authURL' = buildAuthURL(clientID, redirectURI, state)
    /\ out' = IF flagQuiet THEN out
              ELSE out \o <<Line("stdout",
                                 "\nPlease open the following URL in your browser to authenticate:\n%s\n",
                                 <<buildAuthURL(clientID, redirectURI, state)>>),
                            Line("stdout", "\nWaiting for OAuth callback...\n", <<>>)>>
    /\ pc' = "wait"
    /\ UNCHANGED <<flagVars, issued, sessionVars, authCode, authError, proc, srv, handlerVars,
                   signalledBy, exchangeVars>>


(***************************************************************************)
(* The callback handler goroutines                                         *)
(***************************************************************************)

\* The confirmation page of lines 262-269, the raw string literal with its
\* newlines and tabs.
SuccessPage ==
    <<"\n","\t","\t","<","h","t","m","l",">","\n","\t","\t","\t","<","b","o","d","y",">","\n","\t","\t","\t","\t","<","h","2",">","A","u","t","h","e","n","t","i","c","a","t","i","o","n"," ","S","u","c","c","e","s","s","f","u","l","!","<","/","h","2",">">>
    \o <<"\n","\t","\t","\t","\t","<","p",">","Y","o","u"," ","c","a","n"," ","c","l","o","s","e"," ","t","h","i","s"," ","w","i","n","d","o","w"," ","a","n","d"," ","r","e","t","u","r","n"," ","t","o"," ","y","o","u","r"," ","t","e","r","m","i","n","a","l",".","<","/","p",">">>
    \o <<"\n","\t","\t","\t","<","/","b","o","d","y",">","\n","\t","\t","<","/","h","t","m","l",">","\n","\t">>

\* A state check that only asks for a state to be present ("merely non-empty").
CallbackBranchAnyState(req, st) ==
    IF ValuesGet(req.query, <<"e","r","r","o","r">>) # NoString THEN "error"
    ELSE IF ValuesGet(req.query, <<"s","t","a","t","e">>) = NoString THEN "state"
    ELSE "code"

\* No state check at all.
CallbackBranchNoStateCheck(req, st) ==
    IF ValuesGet(req.query, <<"e","r","r","o","r">>) # NoString THEN "error" ELSE "code"

\* The state and the code looked at before the error parameter.
CallbackBranchErrorLast(req, st) ==
    IF ValuesGet(req.query, <<"s","t","a","t","e">>) # st THEN "state"
    ELSE IF ValuesGet(req.query, <<"c","o","d","e">>) # NoString THEN "code"
    ELSE IF ValuesGet(req.query, <<"e","r","r","o","r">>) # NoString THEN "error"
    ELSE "code"

\* The branch handleCallback takes on its request: the error parameter first,
\* then the state comparison, then the code.
CallbackBranch(req, st) ==
    IF ValuesGet(req.query, <<"e","r","r","o","r">>) # NoString THEN "error"
    ELSE IF ValuesGet(req.query, <<"s","t","a","t","e">>) # st THEN "state"
    ELSE "code"

\* fmt.Sprintf("%s: %s", errorParam, error_description)
ErrorText(req) ==
    ValuesGet(req.query, <<"e","r","r","o","r">>) \o <<":"," ">> \o ValuesGet(req.query, <<"e","r","r","o","r","_","d","e","s","c","r","i","p","t","i","o","n">>)

\* A mux that hands every path to handleCallback (a pattern "/").
AcceptAnyPath(h) ==
    /\ proc = "running"
    /\ srv = "listening"
    /\ hpc[h] = "idle"
    /\ IF h = 1 THEN TRUE ELSE hpc[h - 1] # "idle"
    /\ \E req \in Requests(state) :
          /\ hreq' = [hreq EXCEPT ![h] = req]
          /\ hpc' = [hpc EXCEPT ![h] = "accepted"]
          /\ UNCHANGED hresp
    /\ UNCHANGED <<flagVars, issued, sessionVars, authCode, authError, pc, proc, srv, hstored,
                   signalledBy, authURL, out, exchangeVars>>

\* The listener accepts a connection and the mux dispatches its request: to
\* handleCallback for /callback, to the 404 handler for any other path.
Accept(h) ==
    /\ proc = "running"
    /\ srv = "listening"
    /\ hpc[h] = "idle"
    /\ IF h = 1 THEN TRUE ELSE hpc[h - 1] # "idle"
    /\ \E req \in Requests(state) :
          /\ hreq' = [hreq EXCEPT ![h] = req]
          /\ IF req.path = callbackPath
             THEN /\ hpc' = [hpc EXCEPT ![h] = "accepted"]
                  /\ UNCHANGED hresp
             ELSE /\ hpc' = [hpc EXCEPT ![h] = "returned"]
                  /\ hresp' = [hresp EXCEPT ![h] = [status |-> StatusNotFound,
                                                    body |-> <<"4","0","4"," ","p","a","g","e"," ","n","o","t"," ","f","o","u","n","d","\n">>]]
    /\ UNCHANGED <<flagVars, issued, sessionVars, authCode, authError, pc, proc, srv, hstored,
                   signalledBy, authURL, out, exchangeVars>>

\* handleCallback, lines 236-252: up to its first write of a global.
HandleClassify(h) ==
    /\ proc = "running"
    /\ hpc[h] = "accepted"
    /\ LET branch == CallbackBranch(hreq[h], state)
       IN  \/ /\ branch = "error"
              /\ authError' = ErrorText(hreq[h])
              /\ hstored' = [hstored EXCEPT ![h].error = ErrorText(hreq[h])]
              /\ hresp' = [hresp EXCEPT ![h] =
                              [status |-> StatusBadRequest,
                               body |-> <<"O","A","u","t","h"," ","e","r","r","o","r"," ","o","c","c","u","r","r","e","d","."," ","C","h","e","c","k"," ","y","o","u","r"," ","t","e","r","m","i","n","a","l",".","\n">>]]
              /\ hpc' = [hpc EXCEPT ![h] = "send"]
              /\ UNCHANGED authCode
           \/ /\ branch = "state"
              /\ authError' = InvalidStateParameter
              /\ hstored' = [hstored EXCEPT ![h].error = InvalidStateParameter]
              /\ hresp' = [hresp EXCEPT ![h] = [status |-> StatusBadRequest,
                                                body |-> <<"I","n","v","a","l","i","d"," ","s","t","a","t","e"," ","p","a","r","a","m","e","t","e","r","\n">>]]
              /\ hpc' = [hpc EXCEPT ![h] = "send"]
              /\ UNCHANGED authCode
           \/ /\ branch = "code"
              /\ authCode' = ValuesGet(hreq[h].query, <<"c","o","d","e">>)
              /\ hstored' = [hstored EXCEPT ![h].wroteCode = TRUE,
                                            ![h].code = ValuesGet(hreq[h].query, <<"c","o","d","e">>)]
              /\ hpc' = [hpc EXCEPT ![h] = "codecheck"]
              /\ UNCHANGED <<authError, hresp>>
    /\ UNCHANGED <<flagVars, issued, sessionVars, pc, proc, srv, hreq, signalledBy, authURL, out,
                   exchangeVars>>

\* handleCallback, lines 253-271: the test of the global authCode and the
\* response; w.Write may fail (the client went away), which is logged.
HandleCodeCheck(h) ==
    /\ proc = "running"
    /\ hpc[h] = "codecheck"
    /\ \/ /\ authCode = NoString
          /\ authError' = NoAuthorizationCode
          /\ hstored' = [hstored EXCEPT ![h].error = NoAuthorizationCode]
          /\ hresp' = [hresp EXCEPT ![h] = [status |-> StatusBadRequest,
                                            body |-> <<"N","o"," ","a","u","t","h","o","r","i","z","a","t","i","o","n"," ","c","o","d","e"," ","r","e","c","e","i","v","e","d","\n">>]]
          /\ UNCHANGED out
       \/ /\ authCode # NoString
          /\ hresp' = [hresp EXCEPT ![h] =
                          [status |-> StatusOK,
                           body |-> SuccessPage]]
          /\ \E writeFails \in BOOLEAN :
                out' = IF writeFails
                       THEN Append(out, Line("stderr", "Error writing response: %v\n", <<>>))
                       ELSE out
          /\ UNCHANGED <<authError, hstored>>
    /\ hpc' = [hpc EXCEPT ![h] = "send"]
    /\ UNCHANGED <<flagVars, issued, sessionVars, authCode, pc, proc, srv, hreq, signalledBy,
                   authURL, exchangeVars>>

\* A handler that consumes the expected state when it signals.
SignalClearingState(h) ==
    /\ proc = "running"
    /\ pc = "wait"
    /\ hpc[h] = "send"
    /\ hpc' = [hpc EXCEPT ![h] = "returned"]
    /\ signalledBy' = h
    /\ pc' = "shutdown"
    /\ state' = NoString
    /\ UNCHANGED <<flagVars, issued, clientID, clientSecret, redirectURI, port, authCode,
                   authError, proc, srv, hreq, hresp, hstored, authURL, out, exchangeVars>>

\* The deferred serverDone <- true meets runAuth's <-serverDone (line 137):
\* the channel is unbuffered, so the send completes only with the receive.
Signal(h) ==
    /\ proc = "running"
    /\ pc = "wait"
    /\ hpc[h] = "send"
    /\ hpc' = [hpc EXCEPT ![h] = "returned"]
    /\ signalledBy' = h
    /\ pc' = "shutdown"
    /\ UNCHANGED <<flagVars, issued, sessionVars, authCode, authError, proc, srv, hreq, hresp,
                   hstored, authURL, out, exchangeVars>>

\* After the handler returns, net/http flushes the response to the client.
Flush(h) ==
    /\ proc = "running"
    /\ hpc[h] = "returned"
    /\ hpc' = [hpc EXCEPT ![h] = "flushed"]
    /\ UNCHANGED <<flagVars, issued, sessionVars, authCode, authError, pc, proc, srv, hreq, hresp,
                   hstored, signalledBy, authURL, out, exchangeVars>>


(***************************************************************************)
(* runAuth from the wait on: shutdown, the outcome, the exchange, the output *)
(***************************************************************************)

\* Connections whose request is still being served.
Active == {h \in Handlers : hpc[h] \notin {"idle", "flushed"}}

\* runAuth going on from the signal with the listener left open.
ShutdownSkipped ==
    /\ proc = "running"
    /\ pc = "shutdown"
    /\ pc' = "draining"
    /\ UNCHANGED <<flagVars, issued, sessionVars, authCode, authError, proc, srv, handlerVars,
                   signalledBy, authURL, out, exchangeVars>>

\* server.Shutdown (line 142) closes the listener at once ...
ShutdownBegin ==
    /\ proc = "running"
    /\ pc = "shutdown"
    /\ srv' = "closed"
    /\ pc' = "draining"
    /\ UNCHANGED <<flagVars, issued, sessionVars, authCode, authError, proc, handlerVars,
                   signalledBy, authURL, out, exchangeVars>>

\* server.Close() in place of Shutdown: returns at once, in-flight or not.
ShutdownEndAbrupt ==
    /\ proc = "running"
    /\ pc = "draining"
    /\ pc' = "check_error"
    /\ UNCHANGED <<flagVars, issued, sessionVars, authCode, authError, proc, srv, handlerVars,
                   signalledBy, authURL, out, exchangeVars>>

\* ... and returns nil once no connection is active, or the context's error
\* when the 5 s grace period ends first; runAuth logs that and goes on.
ShutdownEnd ==
    /\ proc = "running"
    /\ pc = "draining"
    /\ \/ /\ Active = {}
          /\ UNCHANGED out
       \/ /\ Active # {}
          /\ out' = Append(out, Line("stderr", "Server shutdown error: %v\n",
                                     <<<<"c","o","n","t","e","x","t"," ","d","e","a","d","l","i","n","e"," ","e","x","c","e","e","d","e","d">>>>))
    /\ pc' = "check_error"
    /\ UNCHANGED <<flagVars, issued, sessionVars, authCode, authError, proc, srv, handlerVars,
                   signalledBy, authURL, exchangeVars>>

\* Lines 146-148.
CheckError ==
    /\ proc = "running"
    /\ pc = "check_error"
    /\ \/ /\ authError # NoString
          /\ out' = Append(out, Line("stderr", "OAuth error: %s\n", <<authError>>))
          /\ proc' = "exit1"
          /\ UNCHANGED pc
       \/ /\ authError = NoString
          /\ pc' = "check_code"
          /\ UNCHANGED <<out, proc>>
    /\ UNCHANGED <<flagVars, issued, sessionVars, authCode, authError, srv, handlerVars,
                   signalledBy, authURL, exchangeVars>>

\* Lines 150-152.
CheckCode ==
    /\ proc = "running"
    /\ pc = "check_code"
    /\ \/ /\ authCode = NoString
          /\ out' = Append(out, Line("stderr", "No authorization code received\n", <<>>))
          /\ proc' = "exit1"
          /\ UNCHANGED pc
       \/ /\ authCode # NoString
          /\ pc' = "exchange"
          /\ UNCHANGED <<out, proc>>
    /\ UNCHANGED <<flagVars, issued, sessionVars, authCode, authError, srv, handlerVars,
                   signalledBy, authURL, exchangeVars>>

\* The form exchangeCodeForTokens posts.
TokenForm(code) ==
    LET d1 == ValuesSet(EmptyValues, <<"g","r","a","n","t","_","t","y","p","e">>, <<"a","u","t","h","o","r","i","z","a","t","i","o","n","_","c","o","d","e">>)
        d2 == ValuesSet(d1, <<"c","l","i","e","n","t","_","i","d">>, clientID)
        d3 == ValuesSet(d2, <<"c","l","i","e","n","t","_","s","e","c","r","e","t">>, clientSecret)
        d4 == ValuesSet(d3, <<"r","e","d","i","r","e","c","t","_","u","r","i">>, redirectURI)
    IN  ValuesSet(d4, <<"c","o","d","e">>, code)

\* encoding/json's folding of a member name: ASCII letters to upper case, and
\* the two letters outside ASCII that fold to ASCII ones (the Kelvin sign
\* U+212A to K, the long s U+017F to S).
UpperOf ==
    [c \in {Ascii[i] : i \in 66..91} |-> Ascii[(CHOOSE i \in 66..91 : Ascii[i] = c) - 32]]

FoldChar(c) ==
    IF c = "U+212A" THEN "K"
    ELSE IF c = "U+017F" THEN "S"
    ELSE IF c \in DOMAIN UpperOf THEN UpperOf[c]
    ELSE c

FoldName(s) == [i \in 1..Len(s) |-> FoldChar(s[i])]

\* The JSON names of the fields of SalesforceOAuthResponse (lines 29-38).
StructTags ==
    {<<"a","c","c","e","s","s","_","t","o","k","e","n">>, <<"r","e","f","r","e","s","h","_","t","o","k","e","n">>, <<"i","n","s","t","a","n","c","e","_","u","r","l">>, <<"i","d">>, <<"t","o","k","e","n","_","t","y","p","e">>,
     <<"i","s","s","u","e","d","_","a","t">>, <<"s","i","g","n","a","t","u","r","e">>}

FoldedTags == {FoldName(t) : t \in StructTags}

\* The member is decoded into a field of the struct: its name matches a tag,
\* exactly or under folding.  Other members are skipped whatever their value.
IsField(name) == FoldName(name) \in FoldedTags

\* Decode's UnmarshalTypeError: all the fields are strings, and a member of a
\* field that is a number, a boolean, an array or an object cannot be stored
\* (null is stored into nothing and is no error).
DecodeTypeError(obj) ==
    \E i \in 1..Len(obj) : IsField(obj[i][1]) /\ obj[i][2].kind \notin {"string", "null"}

\* The value the decoder leaves in the struct field tagged name: every string
\* member whose name matches the tag, exactly or under folding, is stored into
\* the field as it is met, so the last one stays; "" when there is none.
JSONMember(obj, name) ==
    LET hits == {i \in 1..Len(obj) : /\ FoldName(obj[i][1]) = FoldName(name)
                                     /\ obj[i][2].kind = "string"}
    IN  IF hits = {} THEN NoString
        ELSE obj[CHOOSE i \in hits : \A j \in hits : j <= i][2].text

\* json.Decode into SalesforceOAuthResponse, as far as runAuth reads it.
DecodeTokens(obj) ==
    [AccessToken |-> JSONMember(obj, <<"a","c","c","e","s","s","_","t","o","k","e","n">>),
     RefreshToken |-> JSONMember(obj, <<"r","e","f","r","e","s","h","_","t","o","k","e","n">>),
     InstanceURL |-> JSONMember(obj, <<"i","n","s","t","a","n","c","e","_","u","r","l">>)]

\* Decode of line 298 treating every JSON value as an answer.
ExchangeKindAnyJSON(resp) ==
    IF resp.netErr THEN "request"
    ELSE IF resp.status # StatusOK THEN "status"
    ELSE IF resp.value = "none" THEN "decode"
    ELSE IF DecodeTypeError(resp.obj) THEN "decode"
    ELSE "ok"

\* How exchangeCodeForTokens classifies what http.PostForm returns (lines
\* 283-300).  Decoder.Decode reads the first JSON value of the body and
\* leaves what follows it unread: it fails when no value can be read, when
\* the value is an array, a string, a number or a boolean, and when a member
\* of an object cannot be stored in its field; otherwise an object fills the
\* fields and null leaves them empty.
ExchangeKind(resp) ==
    IF resp.netErr THEN "request"
    ELSE IF resp.status # StatusOK THEN "status"
    ELSE IF resp.value \notin {"object", "null"} THEN "decode"
    ELSE IF DecodeTypeError(resp.obj) THEN "decode"
    ELSE "ok"

\* The text of the error exchangeCodeForTokens returns; url is the URL of the
\* request that failed.
ExchangeError(resp, url) ==
    IF ExchangeKind(resp) = "request"
    THEN Line("stderr",
              "Error exchanging code for tokens: error making token request: Post %q: %v\n",
              <<url>>)
    ELSE IF ExchangeKind(resp) = "status"
    THEN Line("stderr",
              "Error exchanging code for tokens: token request failed with status: %d\n",
              <<Itoa(resp.status)>>)
    ELSE Line("stderr",
              "Error exchanging code for tokens: error decoding token response: %v\n", <<>>)

\* The control characters (code below 0x20) in code order; those a TLA+
\* string cannot hold are written "U+XXXX".
Controls ==
    <<"U+0000", "U+0001", "U+0002", "U+0003", "U+0004", "U+0005", "U+0006", "U+0007",
      "U+0008", "\t", "\n", "U+000B", "\f", "\r", "U+000E", "U+000F",
      "U+0010", "U+0011", "U+0012", "U+0013", "U+0014", "U+0015", "U+0016", "U+0017",
      "U+0018", "U+0019", "U+001A", "U+001B", "U+001C", "U+001D", "U+001E", "U+001F">>

ControlCode ==
    [c \in {Controls[i] : i \in 1..Len(Controls)} |->
        (CHOOSE i \in 1..Len(Controls) : Controls[i] = c) - 1]

lowerhex == <<"0","1","2","3","4","5","6","7","8","9","a","b","c","d","e","f">>

\* encoding/json's string encoding (HTML-safe, as Marshal does by default):
\* \n, \r and \t by their short escapes, the other control characters, the
\* HTML characters and U+2028, U+2029 as \uXXXX.
JSONEscapeChar(c) ==
    IF c = "\"" THEN <<"\\","\"">>
    ELSE IF c = "\\" THEN <<"\\","\\">>
    ELSE IF c = "\n" THEN <<"\\","n">>
    ELSE IF c = "\r" THEN <<"\\","r">>
    ELSE IF c = "\t" THEN <<"\\","t">>
    ELSE IF c \in DOMAIN ControlCode
    THEN <<"\\","u","0","0">> \o <<lowerhex[(ControlCode[c] \div 16) + 1],
                         lowerhex[(ControlCode[c] % 16) + 1]>>
    ELSE IF c = "<" THEN <<"\\","u","0","0","3","c">>
    ELSE IF c = ">" THEN <<"\\","u","0","0","3","e">>
    ELSE IF c = "&" THEN <<"\\","u","0","0","2","6">>
    ELSE IF c = "U+2028" THEN <<"\\","u","2","0","2","8">>
    ELSE IF c = "U+2029" THEN <<"\\","u","2","0","2","9">>
    ELSE <<c>>

RECURSIVE JSONEscape(_)
JSONEscape(s) == IF s = <<>> THEN <<>> ELSE JSONEscapeChar(Head(s)) \o JSONEscape(Tail(s))

JSONString(s) == <<"\"">> \o JSONEscape(s) \o <<"\"">>

\* The output of a TokenResponse that also has a token_type field.
MarshalWithTokenType(r) ==
    <<"{","\n"," "," ","\"","a","c","c","e","s","s","_","t","o","k","e","n","\"",":"," ">> \o JSONString(r.AccessToken)
    \o <<",","\n"," "," ","\"","r","e","f","r","e","s","h","_","t","o","k","e","n","\"",":"," ">> \o JSONString(r.RefreshToken)
    \o <<",","\n"," "," ","\"","i","n","s","t","a","n","c","e","_","u","r","l","\"",":"," ">> \o JSONString(r.InstanceURL)
    \o <<",","\n"," "," ","\"","t","o","k","e","n","_","t","y","p","e","\"",":"," ","\"","B","e","a","r","e","r","\"">>
    \o <<"\n","}">>

\* json.MarshalIndent(result, "", "  ") of a TokenResponse.
MarshalTokenResponse(r) ==
    <<"{","\n"," "," ","\"","a","c","c","e","s","s","_","t","o","k","e","n","\"",":"," ">> \o JSONString(r.AccessToken)
    \o <<",","\n"," "," ","\"","r","e","f","r","e","s","h","_","t","o","k","e","n","\"",":"," ">> \o JSONString(r.RefreshToken)
    \o <<",","\n"," "," ","\"","i","n","s","t","a","n","c","e","_","u","r","l","\"",":"," ">> \o JSONString(r.InstanceURL)
    \o <<"\n","}">>

\* The access and refresh tokens exchanged.
ResultOfSwapped(t) ==
    [AccessToken |-> t.RefreshToken, RefreshToken |-> t.AccessToken,
     InstanceURL |-> t.InstanceURL]

\* The TokenResponse runAuth builds from the exchange's result (lines 161-165).
ResultOf(t) ==
    [AccessToken |-> t.AccessToken, RefreshToken |-> t.RefreshToken,
     InstanceURL |-> t.InstanceURL]

\* What runAuth prints on success (lines 160-175).
SuccessLines(t) ==
    (IF flagQuiet THEN <<>>
     ELSE <<Line("stdout", "\nAuthentication successful!\n", <<>>)>>)
    \o <<Line("stdout", "%s\n", <<MarshalTokenResponse(ResultOf(t))>>)>>

\* Line 155 and exchangeCodeForTokens up to its call of http.PostForm (lines
\* 274-282): authCode is read again for the call and the form is sent.  The
\* call then waits while the other goroutines run on: for the answer, and
\* for the answers to the requests its client makes when it is redirected
\* (FollowRedirect); Exchange is its return.
PostTokenRequest ==
    /\ proc = "running"
    /\ pc = "exchange"
    /\ posts' = Append(posts, [url |-> salesforceTokenURL, form |-> TokenForm(authCode)])
    /\ pc' = "posting"
    /\ UNCHANGED <<flagVars, issued, sessionVars, authCode, authError, proc, srv, handlerVars,
                   signalledBy, authURL, out, exchange, jsonOutput>>

\* The code of the token request that is waiting for its answer.
PostedCode == ValuesGet(posts[Len(posts)].form, <<"c","o","d","e">>)

\* The request of the client that is waiting for its answer: the POST of
\* http.PostForm, or the request made for the last redirect.
InFlight ==
    IF exchange.hops = <<>>
    THEN [method |-> "POST", url |-> posts[Len(posts)].url, form |-> posts[Len(posts)].form]
    ELSE [method |-> exchange.hops[Len(exchange.hops)].method,
          url |-> exchange.hops[Len(exchange.hops)].url,
          form |-> exchange.hops[Len(exchange.hops)].form]

\* http.DefaultClient, which http.PostForm uses, follows an answer with a
\* redirect status and a Location header; an answer without a Location is
\* returned as it is.
IsRedirect(resp) ==
    /\ ~resp.netErr
    /\ resp.status \in {301, 302, 303, 307, 308}
    /\ resp.location # NoString

\* The method of the request the client makes for a redirect: GET after 301,
\* 302 and 303, the method of the request redirected after 307 and 308.
RedirectMethod(status, method) == IF status \in {301, 302, 303} THEN "GET" ELSE method

\* Inside http.PostForm (line 282): the answer is a redirect and the client
\* makes its next request to the Location: a GET without a body after 301,
\* 302 and 303, the same request with the same body after 307 and 308 (the
\* form is posted again).  The model sends the client through at most
\* MaxRedirects redirects.
FollowRedirect ==
    /\ proc = "running"
    /\ pc = "posting"
    /\ Len(exchange.hops) < MaxRedirects
    /\ \E resp \in TokenResponses :
          /\ IsRedirect(resp)
          /\ exchange' =
                [exchange EXCEPT !.hops =
                    Append(@, [status |-> resp.status,
                               method |-> RedirectMethod(resp.status, InFlight.method),
                               url |-> resp.location,
                               form |-> IF resp.status \in {307, 308} THEN InFlight.form
                                        ELSE EmptyValues])]
    /\ UNCHANGED <<flagVars, issued, sessionVars, authCode, authError, proc, pc, srv,
                   handlerVars, signalledBy, authURL, out, posts, jsonOutput>>

\* Exchange that posts again after a failed exchange instead of ending.
ExchangeRetrying ==
    /\ proc = "running"
    /\ pc = "posting"
    /\ \E resp \in TokenResponses :
          /\ ~IsRedirect(resp)
          /\ IF ExchangeKind(resp) = "ok"
             THEN /\ exchange' = [called |-> TRUE, code |-> PostedCode, hops |-> exchange.hops,
                                  resp |-> resp, kind |-> "ok",
                                  tokenResp |-> DecodeTokens(resp.obj)]
                  /\ jsonOutput' =
                        [printed |-> TRUE, result |-> ResultOf(exchange'.tokenResp),
                         text |-> MarshalTokenResponse(ResultOf(exchange'.tokenResp))]
                  /\ out' = out \o SuccessLines(exchange'.tokenResp)
                  /\ pc' = "done"
                  /\ proc' = "exit0"
             ELSE /\ exchange' = [called |-> TRUE, code |-> PostedCode, hops |-> exchange.hops,
                                  resp |-> resp, kind |-> ExchangeKind(resp),
                                  tokenResp |-> NoTokens]
                  /\ out' = Append(out, ExchangeError(resp, InFlight.url))
                  /\ pc' = "exchange"
                  /\ UNCHANGED <<proc, jsonOutput>>
    /\ UNCHANGED <<flagVars, issued, sessionVars, authCode, authError, srv, handlerVars,
                   signalledBy, authURL, posts>>

\* What http.PostForm returns (an error, or the answer that is no redirect to
\* follow) and the rest of lines 154-176: any error of exchangeCodeForTokens
\* (lines 283-300) is fatal, and the tokens of a good answer are printed;
\* runAuth returns and the process ends.
Exchange ==
    /\ proc = "running"
    /\ pc = "posting"
    /\ \E resp \in TokenResponses :
          /\ ~IsRedirect(resp)
          /\ IF ExchangeKind(resp) = "ok"
             THEN /\ exchange' = [called |-> TRUE, code |-> PostedCode, hops |-> exchange.hops,
                                  resp |-> resp, kind |-> "ok",
                                  tokenResp |-> DecodeTokens(resp.obj)]
                  /\ jsonOutput' =
                        [printed |-> TRUE, result |-> ResultOf(exchange'.tokenResp),
                         text |-> MarshalTokenResponse(ResultOf(exchange'.tokenResp))]
                  /\ out' = out \o SuccessLines(exchange'.tokenResp)
                  /\ pc' = "done"
                  /\ proc' = "exit0"
             ELSE /\ exchange' = [called |-> TRUE, code |-> PostedCode, hops |-> exchange.hops,
                                  resp |-> resp, kind |-> ExchangeKind(resp),
                                  tokenResp |-> NoTokens]
                  /\ out' = Append(out, ExchangeError(resp, InFlight.url))
                  /\ proc' = "exit1"
                  /\ UNCHANGED <<pc, jsonOutput>>
    /\ UNCHANGED <<flagVars, issued, sessionVars, authCode, authError, srv, handlerVars,
                   signalledBy, authURL, posts>>

(***************************************************************************)
(* The specification                                                       *)
(***************************************************************************)

Next ==
    \/ RejectUnknownFlag
    \/ Configure
    \/ ServerAnnounce
    \/ ServerListen
    \/ ServerBindFails
    \/ PresentURL
    \/ \E h \in Handlers : Accept(h)
    \/ \E h \in Handlers : HandleClassify(h)
    \/ \E h \in Handlers : HandleCodeCheck(h)
    \/ \E h \in Handlers : Signal(h)
    \/ \E h \in Handlers : Flush(h)
    \/ ShutdownBegin
    \/ ShutdownEnd
    \/ CheckError
    \/ CheckCode
    \/ PostTokenRequest
    \/ FollowRedirect
    \/ Exchange

Spec == Init /\ [][Next]_vars

\* The steps of runAuth, of the listener goroutine and of handler h: the Go
\* scheduler runs every goroutine that can take a step.  The arrival of a
\* request (Accept) is the environment's and has no fairness.
Coordinator ==
    \/ RejectUnknownFlag
    \/ Configure
    \/ PresentURL
    \/ \E h \in Handlers : Signal(h)
    \/ ShutdownBegin
    \/ ShutdownEnd
    \/ CheckError
    \/ CheckCode
    \/ PostTokenRequest
    \/ FollowRedirect
    \/ Exchange

Listener == ServerAnnounce \/ ServerListen \/ ServerBindFails

HandlerStep(h) == HandleClassify(h) \/ HandleCodeCheck(h) \/ Flush(h)

FairSpec ==
    /\ Init
    /\ [][Next]_vars
    /\ WF_vars(Coordinator)
    /\ WF_vars(Listener)
    /\ \A h \in Handlers : WF_vars(HandlerStep(h))


(***************************************************************************)
(* generateState called repeatedly (as TestGenerateState calls it)         *)
(***************************************************************************)

CallGenerateState ==
    /\ Len(issued) < MaxCalls
    /\ \E rnd \in RandomSourcesOfCall(Len(issued) + 1), now \in CallClocks :
          issued' = Append(issued, generateState(rnd, now))
    /\ UNCHANGED <<flagVars, sessionVars, authCode, authError, pc, proc, srv, handlerVars,
                   signalledBy, authURL, out, exchangeVars>>

GenNext == CallGenerateState

GenSpec == Init /\ [][GenNext]_vars


(***************************************************************************)
(* Properties                                                              *)
(***************************************************************************)

\* The handler of connection h has composed its response.
Answered(h) == hpc[h] \in {"send", "returned", "flushed"}

ParamOf(h, name) == ValuesGet(hreq[h].query, name)

\* Connection h carries a /callback request without error whose state is
\* not the token of the run.
StateMismatch(h) ==
    /\ hreq[h].path = callbackPath
    /\ ParamOf(h, <<"e","r","r","o","r">>) = NoString
    /\ ParamOf(h, <<"s","t","a","t","e">>) # state

\* C1: a /callback request without an error parameter whose state is not
\* exactly the session's token (absent and empty included) makes handleCallback
\* store "Invalid state parameter" as the failure and answer 400, whether or
\* not it carries a code, and no authorization code is stored from it.
C1_InvalidStateRejected ==
    \A h \in Handlers :
        (StateMismatch(h) /\ hpc[h] \notin {"idle", "accepted"})
            => /\ Answered(h)
               /\ hresp[h].status = StatusBadRequest
               /\ hstored[h].error = InvalidStateParameter
               /\ ~hstored[h].wroteCode

\* The step of C1 itself: it leaves authCode alone and sets authError.
C1_InvalidStateStep ==
    [][\A h \in Handlers :
          (StateMismatch(h) /\ hpc[h] = "accepted" /\ hpc'[h] # "accepted")
              => (authError' = InvalidStateParameter /\ authCode' = authCode)]_vars

\* C1's case: mismatching requests with a code, one with an empty state, were
\* answered.
C1_Witness ==
    \E h, g \in Handlers :
        /\ StateMismatch(h) /\ hpc[h] = "flushed"
        /\ ParamOf(h, <<"c","o","d","e">>) # NoString
        /\ ParamOf(h, <<"s","t","a","t","e">>) # NoString
        /\ StateMismatch(g) /\ Answered(g)
        /\ ParamOf(g, <<"s","t","a","t","e">>) = NoString

\* C2: the token exchange is made only after a callback that succeeded was
\* signalled, and the code it sends was carried by a /callback request whose
\* state equalled the session's token; the code of a request with another
\* state is never exchanged.
C2_ExchangeOnlyValidatedCode ==
    exchange.called =>
        /\ signalledBy # 0
        /\ hresp[signalledBy].status = StatusOK
        /\ \E h \in Handlers :
              /\ hreq[h].path = callbackPath
              /\ ParamOf(h, <<"s","t","a","t","e">>) = state
              /\ ParamOf(h, <<"c","o","d","e">>) = exchange.code
        /\ \A h \in Handlers :
              (StateMismatch(h) /\ ParamOf(h, <<"c","o","d","e">>) # NoString)
                  => ParamOf(h, <<"c","o","d","e">>) # exchange.code

\* C2's case: a request with a forged state and a code was handled, and the
\* exchange was made all the same, with the code of the valid request.
C2_Witness ==
    /\ exchange.called
    /\ exchange.code # NoString
    /\ \E h \in Handlers :
          StateMismatch(h) /\ ParamOf(h, <<"c","o","d","e">>) # NoString /\ Answered(h)


\* The first connection that carries a /callback request.
FirstCallback ==
    CHOOSE h \in Handlers :
        /\ hreq[h].path = callbackPath
        /\ \A g \in Handlers : g < h => hreq[g].path # callbackPath

\* The Callback Outcome a request produces by itself (the validation order of
\* the specification: error, state, code).
OutcomeOf(req) ==
    IF ValuesGet(req.query, <<"e","r","r","o","r">>) # NoString
    THEN [ok |-> FALSE, reason |-> ErrorText(req), code |-> NoString]
    ELSE IF ValuesGet(req.query, <<"s","t","a","t","e">>) # state
    THEN [ok |-> FALSE, reason |-> InvalidStateParameter, code |-> NoString]
    ELSE IF ValuesGet(req.query, <<"c","o","d","e">>) = NoString
    THEN [ok |-> FALSE, reason |-> NoAuthorizationCode, code |-> NoString]
    ELSE [ok |-> TRUE, reason |-> NoString, code |-> ValuesGet(req.query, <<"c","o","d","e">>)]

\* C3 (as claimed): the outcome runAuth acts on is the one the first callback
\* request produced, whatever a second request does: a success is exchanged
\* with the first request's code, a failure is reported with its reason.
C3_FirstRequestDecides ==
    LET first == OutcomeOf(hreq[FirstCallback])
    IN  /\ exchange.called => (first.ok /\ exchange.code = first.code)
        /\ (proc = "exit1" /\ pc = "check_error")
              => (~first.ok /\ out[Len(out)].args = <<first.reason>>)
        /\ (proc = "exit1" /\ pc = "check_code")
              => (~first.ok /\ first.reason = NoAuthorizationCode)

\* C4 (as claimed): the wait for the callback is bounded, so whenever runAuth
\* waits, a step of its own (the timeout) can end the wait, also when no
\* callback request ever arrives.
C4_WaitCanEnd ==
    (proc = "running" /\ pc = "wait") => ENABLED Coordinator


\* Connection h carries a /callback request that is valid by itself: no
\* error, the state of the run, a code.
ValidCallback(h) ==
    /\ hreq[h].path = callbackPath
    /\ ParamOf(h, <<"e","r","r","o","r">>) = NoString
    /\ ParamOf(h, <<"s","t","a","t","e">>) = state
    /\ ParamOf(h, <<"c","o","d","e">>) # NoString

\* C5 (as claimed): when handleCallback has handled a request with no error,
\* the state of the run and a code, the recorded outcome is the success with
\* that code (authCode is the code, authError is empty) and the answer is 200.
C5_ValidCallbackSucceeds ==
    [][\A h \in Handlers :
          (ValidCallback(h) /\ hpc[h] = "codecheck" /\ hpc'[h] = "send")
              => /\ hresp'[h].status = StatusOK
                 /\ authCode' = ParamOf(h, <<"c","o","d","e">>)
                 /\ authError' = NoString]_vars

\* Reading the printed JSON back: the string value of member name.
HexValue(c) == (CHOOSE i \in 1..16 : lowerhex[i] = c) - 1

RECURSIVE JSONReadString(_)
JSONReadString(s) ==
    IF s = <<>> \/ Head(s) = "\"" THEN <<>>
    ELSE IF Head(s) = "\\"
    THEN IF s[2] = "u"
         THEN LET n == 16 * HexValue(s[5]) + HexValue(s[6])
              IN  <<IF n < 32 THEN Controls[n + 1] ELSE Ascii[n - 31]>>
                  \o JSONReadString(SubSeq(s, 7, Len(s)))
         ELSE <<CASE s[2] = "n" -> "\n"
                  [] s[2] = "r" -> "\r"
                  [] s[2] = "t" -> "\t"
                  [] OTHER -> s[2]>> \o JSONReadString(SubSeq(s, 3, Len(s)))
    ELSE <<Head(s)>> \o JSONReadString(Tail(s))

JSONTextMember(text, name) ==
    LET key == <<"\"">> \o name \o <<"\"",":"," ","\"">>
        at == CHOOSE i \in 1..Len(text) :
                  /\ SubSeq(text, i, i + Len(key) - 1) = key
                  /\ \A j \in 1..(i - 1) : SubSeq(text, j, j + Len(key) - 1) # key
    IN  IF Contains(text, key)
        THEN JSONReadString(SubSeq(text, at + Len(key), Len(text)))
        ELSE NoString

TokenMembers == {<<"a","c","c","e","s","s","_","t","o","k","e","n">>, <<"r","e","f","r","e","s","h","_","t","o","k","e","n">>, <<"i","n","s","t","a","n","c","e","_","u","r","l">>}

\* The names of the members of the answer's JSON object, and the value the
\* body gives for a name (the text of its last member of exactly that name).
MemberNames(obj) == {obj[i][1] : i \in 1..Len(obj)}

LastNamed(obj, name) ==
    CHOOSE i \in 1..Len(obj) :
        /\ obj[i][1] = name
        /\ \A j \in (i + 1)..Len(obj) : obj[j][1] # name

MemberValue(obj, name) == obj[LastNamed(obj, name)][2].text

\* Two member names that differ in letter case at most.
SameName(a, b) == FoldName(a) = FoldName(b)

\* The answer http.PostForm returned had status 200 and a body that is a JSON
\* object with all three members.
FullAnswer ==
    /\ exchange.called
    /\ ~exchange.resp.netErr
    /\ exchange.resp.status = StatusOK
    /\ exchange.resp.value = "object"
    /\ ~exchange.resp.trailing
    /\ TokenMembers \subseteq MemberNames(exchange.resp.obj)

\* Such an answer in which, moreover, every member named as a field of
\* SalesforceOAuthResponse (in any letter case) is a string or null, and the
\* three members are strings that no later string member of the same name
\* in another letter case follows.
PlainAnswer ==
    /\ FullAnswer
    /\ LET obj == exchange.resp.obj
       IN  /\ \A i \in 1..Len(obj) :
                 (\E t \in StructTags : SameName(obj[i][1], t))
                     => obj[i][2].kind \in {"string", "null"}
           /\ \A m \in TokenMembers :
                 /\ obj[LastNamed(obj, m)][2].kind = "string"
                 /\ \A j \in (LastNamed(obj, m) + 1)..Len(obj) :
                       ~(SameName(obj[j][1], m) /\ obj[j][2].kind = "string")

\* The exchange returned the values of the three members of the answer and
\* the run printed exactly those values (as the last line of its output).
TokensReturnedAndPrinted ==
    /\ exchange.tokenResp.AccessToken = MemberValue(exchange.resp.obj, <<"a","c","c","e","s","s","_","t","o","k","e","n">>)
    /\ exchange.tokenResp.RefreshToken = MemberValue(exchange.resp.obj, <<"r","e","f","r","e","s","h","_","t","o","k","e","n">>)
    /\ exchange.tokenResp.InstanceURL = MemberValue(exchange.resp.obj, <<"i","n","s","t","a","n","c","e","_","u","r","l">>)
    /\ jsonOutput.printed
    /\ proc = "exit0"
    /\ out[Len(out)].stream = "stdout"
    /\ out[Len(out)].args = <<jsonOutput.text>>
    /\ \A m \in TokenMembers :
          JSONTextMember(jsonOutput.text, m) = MemberValue(exchange.resp.obj, m)

\* C6 (as claimed): on a 200 answer whose JSON body has access_token,
\* refresh_token and instance_url, exchangeCodeForTokens returns exactly those
\* three values and the run prints exactly those values.
C6_TokensReturnedAndPrinted == FullAnswer => TokensReturnedAndPrinted

\* C6 (amended): on a 200 answer whose JSON body is an object in which every
\* member named as a field of SalesforceOAuthResponse is a string or null,
\* and access_token, refresh_token and instance_url are strings that no later
\* string member of the same name in another letter case follows,
\* exchangeCodeForTokens returns exactly those three values and the run
\* prints exactly those values.
C6_PlainAnswerReturnedAndPrinted == PlainAnswer => TokensReturnedAndPrinted

\* C6's case: such an answer came, with values that need JSON escaping and
\* with a member of another letter case before access_token.
C6_Witness ==
    /\ PlainAnswer
    /\ jsonOutput.printed
    /\ \E m \in TokenMembers : Contains(MemberValue(exchange.resp.obj, m), <<"\"">>)
    /\ \E m \in TokenMembers : Contains(MemberValue(exchange.resp.obj, m), <<"<">>)
    /\ \E n \in MemberNames(exchange.resp.obj) \ TokenMembers :
          \E m \in TokenMembers : SameName(n, m)

\* The POST requests the run sent: those of http.PostForm and those its
\* client repeated for a redirect.
PostsSent ==
    Len(posts) + Cardinality({i \in 1..Len(exchange.hops) : exchange.hops[i].method = "POST"})

\* The statuses other than 200 that the run was answered with: those of the
\* redirects followed and that of the answer http.PostForm returned.
Non200Answers ==
    {exchange.hops[i].status : i \in 1..Len(exchange.hops)}
    \cup (IF exchange.called /\ ~exchange.resp.netErr /\ exchange.resp.status # StatusOK
          THEN {exchange.resp.status} ELSE {})

\* C7: every answer of the token endpoint with a status other than 200 ends
\* the run with the failure that carries that status, no tokens are produced
\* or printed, and the token endpoint is posted to once, with no retry.
C7_Non200IsExchangeFailure ==
    /\ PostsSent <= 1
    /\ exchange.called =>
          \A st \in Non200Answers :
             /\ exchange.kind = "status"
             /\ exchange.tokenResp = NoTokens
             /\ ~jsonOutput.printed
             /\ proc = "exit1"
             /\ out[Len(out)].stream = "stderr"
             /\ out[Len(out)].args = <<Itoa(st)>>
             /\ PostsSent = 1


\* strings.Split(s, sep) for a one-character separator.
RECURSIVE Split(_, _)
Split(s, sep) ==
    IF \E i \in 1..Len(s) : s[i] = sep
    THEN LET at == CHOOSE i \in 1..Len(s) : s[i] = sep /\ \A j \in 1..(i - 1) : s[j] # sep
         IN  <<SubSeq(s, 1, at - 1)>> \o Split(SubSeq(s, at + 1, Len(s)), sep)
    ELSE <<s>>

\* The endpoints of provider domain d.
AuthorizeEndpoint(d) == <<"h","t","t","p","s",":","/","/">> \o d \o <<"/","s","e","r","v","i","c","e","s","/","o","a","u","t","h","2","/","a","u","t","h","o","r","i","z","e">>

TokenEndpoint(d) == <<"h","t","t","p","s",":","/","/">> \o d \o <<"/","s","e","r","v","i","c","e","s","/","o","a","u","t","h","2","/","t","o","k","e","n">>

\* The five query pairs of the authorization URL, each value query-escaped.
ExpectedPairs ==
    { <<"r","e","s","p","o","n","s","e","_","t","y","p","e","=","c","o","d","e">>,
      <<"c","l","i","e","n","t","_","i","d","=">> \o QueryEscape(clientID),
      <<"r","e","d","i","r","e","c","t","_","u","r","i","=">> \o QueryEscape(redirectURI),
      <<"s","t","a","t","e","=">> \o QueryEscape(state),
      <<"s","c","o","p","e","=","f","u","l","l","+","r","e","f","r","e","s","h","_","t","o","k","e","n">> }

\* The text after base and "?" in url consists of exactly the five pairs.
HasExpectedQuery(url, base) ==
    /\ HasPrefix(url, base \o <<"?">>)
    /\ LET parts == Split(SubSeq(url, Len(base) + 2, Len(url)), "&")
       IN  /\ Len(parts) = 5
           /\ {parts[i] : i \in 1..Len(parts)} = ExpectedPairs

\* The provider domain the command line asks for.
ConfiguredDomain == IF domainArg = NoString THEN defaultSalesforceDomain ELSE domainArg

\* The command line has been dealt with and the run is past the place where
\* the authorization URL is built.
PastBuildAuthURL == pc \notin {"start", "sleep"}

\* C8 (as claimed): for the domain, client ID, redirect URI and state of a
\* run, the authorization URL is the authorize endpoint of that domain
\* followed by a query of exactly the five pairs response_type=code,
\* client_id, redirect_uri, state and scope, each value query-escaped (a
\* space as '+').
C8_AuthURLOfInputs ==
    PastBuildAuthURL => HasExpectedQuery(authURL, AuthorizeEndpoint(ConfiguredDomain))

\* C9 (as claimed): a run configured with provider domain d presents an
\* authorization URL on https://d/services/oauth2/authorize and posts its
\* token request to https://d/services/oauth2/token.
C9_EndpointsOfDomain ==
    /\ PastBuildAuthURL
          => HasPrefix(authURL, AuthorizeEndpoint(ConfiguredDomain) \o <<"?">>)
    /\ \A i \in 1..Len(posts) : posts[i].url = TokenEndpoint(ConfiguredDomain)

\* What the code does instead: a command line with --domain is turned away,
\* and both endpoints are those of login.salesforce.com in every run; the
\* query is as C8 says.
EndpointsAreFixed ==
    /\ domainArg # NoString => (pc \in {"start", "execute"} /\ authURL = NoString)
    /\ authURL # NoString
          => HasExpectedQuery(authURL, AuthorizeEndpoint(defaultSalesforceDomain))
    /\ \A i \in 1..Len(posts) : posts[i].url = TokenEndpoint(defaultSalesforceDomain)

\* s occurs in text, as it is or query-escaped.
Leaks(text, s) == s # NoString /\ (Contains(text, s) \/ Contains(text, QueryEscape(s)))

\* Everything the process printed or logged, and every response body it sent.
PrintedTexts == UNION {{out[i].args[j] : j \in 1..Len(out[i].args)} : i \in 1..Len(out)}

ResponseBodies == {hresp[h].body : h \in Handlers}

\* The authorization codes the callback requests of the run carried.
CodesReceived == {ParamOf(h, <<"c","o","d","e">>) : h \in Handlers}

MinStateLength == 40

\* C11 (as claimed): the token generateState returned is at least 40
\* characters long, whether it came from the random source or, when the
\* random source failed, from the clock.
C11_StateLongEnough ==
    state # NoString => Len(state) >= MinStateLength

\* C12 (as claimed): of the tokens repeated calls of generateState returned,
\* no two are equal and none is empty, the calls that fell back to the clock
\* included.
C12_StatesDistinct ==
    \A i, j \in 1..Len(issued) :
        /\ issued[i] # NoString
        /\ i # j => issued[i] # issued[j]

\* C13 (as claimed): the token generateState returned has no character that
\* query escaping changes, so the authorization URL carries it byte for byte
\* as its state value.
C13_StateNeedsNoEscaping ==
    /\ state # NoString => \A i \in 1..Len(state) : ~shouldEscape(state[i])
    /\ authURL # NoString
          => \E i \in 1..Len(Split(authURL, "&")) :
                Split(authURL, "&")[i] = <<"s","t","a","t","e","=">> \o state


\* Connection h carries a /callback request with an error parameter.
ErrorCallback(h) ==
    /\ hreq[h].path = callbackPath
    /\ ParamOf(h, <<"e","r","r","o","r">>) # NoString

\* C14: a /callback request with a non-empty error parameter makes
\* handleCallback store the failure "<error>: <error_description>" and answer
\* 400, also when it carries the state of the run and a code, and no
\* authorization code is stored from it.
C14_ErrorParameterWins ==
    \A h \in Handlers :
        (ErrorCallback(h) /\ hpc[h] \notin {"idle", "accepted"})
            => /\ Answered(h)
               /\ hresp[h].status = StatusBadRequest
               /\ hstored[h].error
                     = ParamOf(h, <<"e","r","r","o","r">>) \o <<":", " ">> \o ParamOf(h, <<"e","r","r","o","r","_","d","e","s","c","r","i","p","t","i","o","n">>)
               /\ ~hstored[h].wroteCode

\* C14's case: a request with an error, the state of the run and a code was
\* answered, and the run ended with that error.
C14_Witness ==
    /\ \E h \in Handlers :
          /\ ErrorCallback(h) /\ hpc[h] = "flushed"
          /\ ParamOf(h, <<"s","t","a","t","e">>) = state
          /\ ParamOf(h, <<"c","o","d","e">>) # NoString
    /\ proc = "exit1"
    /\ pc = "check_error"


\* Connection h carries a /callback request with no error and the state of
\* the run, and with no code or an empty one.
MissingCode(h) ==
    /\ hreq[h].path = callbackPath
    /\ ParamOf(h, <<"e","r","r","o","r">>) = NoString
    /\ ParamOf(h, <<"s","t","a","t","e">>) = state
    /\ ParamOf(h, <<"c","o","d","e">>) = NoString

\* C15 (as claimed): a /callback request with no error, the state of the run
\* and no code makes handleCallback store the failure of the missing code
\* ("No authorization code received") and answer 400.
C15_MissingCodeRejected ==
    \A h \in Handlers :
        (MissingCode(h) /\ Answered(h))
            => /\ hresp[h].status = StatusBadRequest
               /\ hstored[h].error = NoAuthorizationCode


\* The process reported that the listener could not bind its port.
BindFailureReported ==
    \E i \in 1..Len(out) : out[i].fmt = "Server failed to start: %v\n"

\* The authorization URL was printed for the operator.
URLPresented ==
    \E i \in 1..Len(out) :
        out[i].fmt = "\nPlease open the following URL in your browser to authenticate:\n%s\n"

\* C16 (as claimed): a run whose listener fails to bind ends with that
\* failure and has not presented the authorization URL, however the listener
\* goroutine and runAuth interleave.
C16_NoURLBeforeBindFailure ==
    BindFailureReported => (proc = "exit1" /\ ~URLPresented)


\* C17 (as claimed): the address the listener is created with and binds is
\* localhost:<port> for the port of the run, the loopback host only.
C17_BindsLoopbackOnly ==
    srv # "none" => port = <<"l","o","c","a","l","h","o","s","t",":">> \o flagPort


\* url.QueryUnescape: what a server reads back from an escaped query value.
RECURSIVE QueryUnescape(_)
QueryUnescape(s) ==
    IF s = <<>> THEN <<>>
    ELSE IF Head(s) = "%"
    THEN LET hi == (CHOOSE i \in 1..16 : upperhex[i] = s[2]) - 1
             lo == (CHOOSE i \in 1..16 : upperhex[i] = s[3]) - 1
         IN  <<Ascii[16 * hi + lo - 31]>> \o QueryUnescape(SubSeq(s, 4, Len(s)))
    ELSE IF Head(s) = "+" THEN <<" ">> \o QueryUnescape(Tail(s))
    ELSE <<Head(s)>> \o QueryUnescape(Tail(s))

\* The values the query of url has for key, unescaped.
QueryValues(url, key) ==
    LET q == Split(url, "?")
        pairs == IF Len(q) < 2 THEN <<>> ELSE Split(q[2], "&")
    IN  { QueryUnescape(SubSeq(pairs[i], Len(key) + 2, Len(pairs[i]))) :
            i \in { k \in 1..Len(pairs) : HasPrefix(pairs[k], key \o <<"=">>) } }

\* C18: for the value p of the port flag, once runAuth has configured the
\* run the listener address is ":p" and the redirect URI is
\* "http://localhost:p/callback", and that redirect URI is the one in the
\* authorization URL and in the form of the token POST.
C18_PortAndRedirectURI ==
    srv # "none" =>
        /\ port = <<":">> \o flagPort
        /\ redirectURI = <<"h","t","t","p",":","/","/","l","o","c","a","l","h","o","s","t",":">> \o flagPort \o <<"/","c","a","l","l","b","a","c","k">>
        /\ authURL # NoString => QueryValues(authURL, <<"r","e","d","i","r","e","c","t","_","u","r","i">>) = {redirectURI}
        /\ \A i \in 1..Len(posts) :
              ValuesGet(posts[i].form, <<"r","e","d","i","r","e","c","t","_","u","r","i">>) = redirectURI

\* C18's case: a run on port 9090 presented its URL and posted its form.
C18_Witness ==
    /\ flagPort = <<"9","0","9","0">>
    /\ authURL # NoString
    /\ Len(posts) = 1
    /\ port = <<":","9","0","9","0">>


\* The member names of a pretty-printed JSON object, in the order printed
\* (one member a line, between the lines of the braces).
OutputKeys(text) ==
    LET lines == Split(text, "\n")
    IN  [i \in 1..(Len(lines) - 2) |->
            JSONReadString(SubSeq(lines[i + 1], 4, Len(lines[i + 1])))]

\* The output is the last line printed, a JSON object of exactly the members
\* access_token, refresh_token and instance_url, in this order.
ThreeKeysPrinted ==
    LET text == jsonOutput.text
        lines == Split(text, "\n")
    IN  /\ proc = "exit0"
        /\ out[Len(out)] = Line("stdout", "%s\n", <<text>>)
        /\ Head(lines) = <<"{">>
        /\ lines[Len(lines)] = <<"}">>
        /\ OutputKeys(text) = <<<<"a","c","c","e","s","s","_","t","o","k","e","n">>, <<"r","e","f","r","e","s","h","_","t","o","k","e","n">>, <<"i","n","s","t","a","n","c","e","_","u","r","l">>>>

\* C19 (as claimed): what the process prints on success is a JSON object with
\* exactly the members access_token, refresh_token and instance_url, their
\* values those of the members of these names in the provider's answer, and
\* no other member or value of the answer is in it.
C19_OutputCopiesMembers ==
    jsonOutput.printed =>
        LET text == jsonOutput.text
            obj == exchange.resp.obj
        IN  /\ ThreeKeysPrinted
            /\ \A m \in TokenMembers :
                  JSONTextMember(text, m) =
                      IF m \in MemberNames(obj) THEN MemberValue(obj, m) ELSE NoString
            /\ \A m \in MemberNames(obj) \ TokenMembers :
                  /\ ~Contains(text, JSONString(m))
                  /\ ~Contains(text, MemberValue(obj, m))

\* C19 (amended): what the process prints on success is a JSON object with
\* exactly the members access_token, refresh_token and instance_url; the
\* value of each is that of the last string member of the provider's answer
\* whose name is the key in any letter case (the empty string when there is
\* none); no member of another name (id, token_type, issued_at, signature)
\* is in the output, by its name or by its value.
C19_OutputHasThreeKeys ==
    jsonOutput.printed =>
        LET text == jsonOutput.text
            obj == exchange.resp.obj
        IN  /\ ThreeKeysPrinted
            /\ \A m \in TokenMembers :
                  LET hits == {i \in 1..Len(obj) : /\ SameName(obj[i][1], m)
                                                   /\ obj[i][2].kind = "string"}
                  IN  JSONTextMember(text, m) =
                          IF hits = {} THEN NoString
                          ELSE obj[CHOOSE i \in hits : \A j \in hits : j <= i][2].text
            /\ \A i \in 1..Len(obj) :
                  (\A m \in TokenMembers : ~SameName(obj[i][1], m))
                      => /\ ~Contains(text, JSONString(obj[i][1]))
                         /\ ~Contains(text, obj[i][2].text)

\* C19's case: the provider's answer had id, token_type, issued_at and
\* signature beside the tokens, and the run printed its output.
C19_Witness ==
    /\ jsonOutput.printed
    /\ {<<"i","d">>, <<"t","o","k","e","n","_","t","y","p","e">>, <<"i","s","s","u","e","d","_","a","t">>, <<"s","i","g","n","a","t","u","r","e">>} \subseteq MemberNames(exchange.resp.obj)


\* The URLs the process printed for the operator to open.
PresentedURLs ==
    { out[i].args[1] :
        i \in { k \in 1..Len(out) :
                  out[k].fmt = "\nPlease open the following URL in your browser to authenticate:\n%s\n" } }

SignalReceived == signalledBy # 0

\* The handlers whose deferred send on serverDone has not completed.
BlockedOnSignal == {h \in Handlers : hpc[h] = "send"}

\* C21: the completion signal is one-shot and a further write to it never
\* blocks: after runAuth has received the signal, every handler that
\* reaches its write to the signal can complete it and return.
C21_SignalNeverBlocks ==
    (proc = "running" /\ SignalReceived) =>
        \A h \in BlockedOnSignal : ENABLED Signal(h)


\* The callback requests whose handler has completed its send and returned.
PastSignal ==
    {h \in Handlers : hreq[h].path = callbackPath /\ hpc[h] \in {"returned", "flushed"}}

\* server.Shutdown has returned to runAuth.
ShutdownReturned == pc \in {"check_error", "check_code", "exchange", "posting", "done"}

\* runAuth logged an error of server.Shutdown.
ShutdownErrorLogged ==
    \E i \in 1..Len(out) : out[i].fmt = "Server shutdown error: %v\n"

\* C22: for the request that completes the run the order is: response
\* composed, runAuth signalled (once: no other callback handler gets past
\* its signal), response flushed, shutdown finished.  Shutdown does not
\* report a clean stop while that response is unwritten; when it returns
\* earlier it is because the grace period ran out, which is logged as the
\* context's deadline error.
C22_CompletionOrder ==
    /\ PastSignal = IF SignalReceived THEN {signalledBy} ELSE {}
    /\ SignalReceived =>
          /\ hresp[signalledBy] # NoResponse
          /\ pc \notin {"wait", "shutdown"} => srv = "closed"
          /\ (ShutdownReturned /\ ~ShutdownErrorLogged) => hpc[signalledBy] = "flushed"
    /\ \A i \in 1..Len(out) :
          out[i].fmt = "Server shutdown error: %v\n" =>
              /\ out[i].args = <<<<"c","o","n","t","e","x","t"," ","d","e","a","d","l","i","n","e"," ","e","x","c","e","e","d","e","d">>>>
              /\ ShutdownReturned
    /\ (pc = "draining" \/ ShutdownReturned) => SignalReceived

\* C22's case: the completing request got the success page, it was flushed,
\* and the shutdown then ended without an error.
C22_Witness ==
    /\ SignalReceived
    /\ hresp[signalledBy].status = StatusOK
    /\ hpc[signalledBy] = "flushed"
    /\ ShutdownReturned
    /\ ~ShutdownErrorLogged


\* Some handler has recorded a failure outcome in authError.
FailureRecorded == \E h \in Handlers : hstored[h].error # NoString

\* C23: once a handler has recorded a failure outcome, the run neither posts
\* a token request nor prints tokens, whatever other callback requests
\* arrive before, after or beside it.
C23_FailureIsTerminal ==
    [][FailureRecorded => (posts' = posts /\ jsonOutput' = jsonOutput)]_vars


\* C24: with or without --quiet, when runAuth waits for the callback signal
\* the authorization URL has been built and printed for the operator.
C24_URLPresentedBeforeWait ==
    pc = "wait" =>
        (authURL # NoString /\ authURL \in PresentedURLs)


\* C25: the listener is shut down between the signal and the token
\* exchange: when the token request has been posted the signal was received
\* and no request can be accepted any more, also when the shutdown reported
\* an error; that error is logged and is never what ends the run.
C25_ListenerClosedBeforeExchange ==
    /\ (pc \in {"exchange", "posting", "done"} \/ posts # <<>>) =>
          /\ SignalReceived
          /\ srv = "closed"
          /\ \A h \in Handlers : ~ENABLED Accept(h)
    /\ (proc = "exit1" /\ out # <<>>) => out[Len(out)].fmt # "Server shutdown error: %v\n"

\* C25's case: the shutdown ran out of its grace period, which was logged,
\* and the run went on to post the token request and print its output.
C25_Witness ==
    /\ ShutdownErrorLogged
    /\ Len(posts) = 1
    /\ srv = "closed"
    /\ jsonOutput.printed


\* The steps runAuth has still to take from its position to its return, the
\* redirects its client can still be sent through counted in.
StepsLeft ==
    CASE pc = "shutdown" -> 6 + MaxRedirects
      [] pc = "draining" -> 5 + MaxRedirects
      [] pc = "check_error" -> 4 + MaxRedirects
      [] pc = "check_code" -> 3 + MaxRedirects
      [] pc = "exchange" -> 2 + MaxRedirects
      [] pc = "posting" -> 1 + MaxRedirects - Len(exchange.hops)
      [] pc = "done" -> 0
      [] OTHER -> 7 + MaxRedirects

\* The formats of the lines with which a run ends after a classified failure.
FatalFormats ==
    { "OAuth error: %s\n",
      "No authorization code received\n",
      "Error exchanging code for tokens: error making token request: Post %q: %v\n",
      "Error exchanging code for tokens: token request failed with status: %d\n",
      "Error exchanging code for tokens: error decoding token response: %v\n" }

\* The lines of the output that print a Token Bundle.
BundleLines == {i \in 1..Len(out) : out[i].stream = "stdout" /\ out[i].fmt = "%s\n"}

\* C26: once a callback request has signalled runAuth the run ends: runAuth
\* can always take its next step (the token endpoint answers or errors),
\* every such step brings it nearer to its return or ends the process, and
\* the process ends in one of two ways, with a fatal classified failure and
\* no Token Bundle, or with exactly one printed Token Bundle; at most one
\* token request is posted.
C26_SignalledRunEnds ==
    /\ [](/\ Len(posts) <= 1
          /\ (SignalReceived /\ proc = "running") => ENABLED Coordinator
          /\ (SignalReceived /\ proc = "exit1") =>
                /\ ~jsonOutput.printed
                /\ BundleLines = {}
                /\ out[Len(out)].stream = "stderr"
                /\ out[Len(out)].fmt \in FatalFormats
          /\ proc = "exit0" =>
                /\ SignalReceived
                /\ jsonOutput.printed
                /\ Cardinality(BundleLines) = 1
                /\ Len(posts) = 1
                /\ \A i \in 1..Len(out) : out[i].fmt \notin FatalFormats)
    /\ [][SignalReceived =>
            /\ StepsLeft' <= StepsLeft
            /\ Coordinator => (StepsLeft' < StepsLeft \/ proc' # "running")]_vars

\* C26's case: a signalled run posted its one token request, the provider
\* refused it, and the run ended with that failure.
C26_Witness ==
    /\ SignalReceived
    /\ proc = "exit1"
    /\ Len(posts) = 1
    /\ exchange.kind = "status"


\* The answer http.PostForm returned had status 200.
Answered200 ==
    /\ exchange.called
    /\ ~exchange.resp.netErr
    /\ exchange.resp.status = StatusOK

\* The exchange ended as a decode failure: fatal, no Token Bundle printed.
DecodeFailed ==
    /\ exchange.kind = "decode"
    /\ exchange.tokenResp = NoTokens
    /\ ~jsonOutput.printed
    /\ BundleLines = {}
    /\ proc = "exit1"
    /\ out[Len(out)].fmt = "Error exchanging code for tokens: error decoding token response: %v\n"

\* The exchange gave a Token Bundle with the members of the answer, an absent
\* member being the empty string, and the bundle was printed.
BundleOfAnswer ==
    /\ exchange.kind = "ok"
    /\ \A i \in 1..Len(out) : out[i].fmt \notin FatalFormats
    /\ exchange.tokenResp =
          [AccessToken |-> JSONMember(exchange.resp.obj, <<"a","c","c","e","s","s","_","t","o","k","e","n">>),
           RefreshToken |-> JSONMember(exchange.resp.obj, <<"r","e","f","r","e","s","h","_","t","o","k","e","n">>),
           InstanceURL |-> JSONMember(exchange.resp.obj, <<"i","n","s","t","a","n","c","e","_","u","r","l">>)]
    /\ jsonOutput.printed
    /\ \A m \in TokenMembers :
          JSONTextMember(jsonOutput.text, m) = JSONMember(exchange.resp.obj, m)

\* The body of the answer is parsable as JSON: it is one JSON value and
\* nothing else.
ParsableBody == exchange.resp.value # "none" /\ ~exchange.resp.trailing

\* The body of the answer starts with a JSON value that is null, or an
\* object in which every member named as a field of SalesforceOAuthResponse
\* (in any letter case) is a string or null.
StorableBody ==
    /\ exchange.resp.value \in {"object", "null"}
    /\ \A i \in 1..Len(exchange.resp.obj) :
          (\E t \in StructTags : SameName(exchange.resp.obj[i][1], t))
              => exchange.resp.obj[i][2].kind \in {"string", "null"}

\* C27 (as claimed): on a 200 answer a body that is not parsable as JSON is
\* a decode failure with nothing printed, and every body that is parsable as
\* JSON gives a Token Bundle whose absent members are empty, without a
\* failure.
C27_ParsableBodyGivesBundle ==
    Answered200 => IF ParsableBody THEN BundleOfAnswer ELSE DecodeFailed

\* C27 (amended): on a 200 answer, a body from which no first JSON value can
\* be read, or whose first JSON value is an array, a string, a number or a
\* boolean, or an object with a member named as a field of
\* SalesforceOAuthResponse that is neither a string nor null, is a decode
\* failure with nothing printed; every other body (its first JSON value is
\* null or an object of storable members, whatever text follows that value)
\* gives a Token Bundle in which a field without a string member is empty,
\* without a failure.
C27_ObjectBodyGivesBundle ==
    Answered200 => IF StorableBody THEN BundleOfAnswer ELSE DecodeFailed

\* C27's case: the 200 answer was a JSON object without refresh_token, and
\* the run printed a bundle with that member empty.
C27_Witness ==
    /\ Answered200
    /\ ParsableBody
    /\ exchange.resp.value = "object"
    /\ <<"r","e","f","r","e","s","h","_","t","o","k","e","n">> \notin MemberNames(exchange.resp.obj)
    /\ jsonOutput.printed
    /\ jsonOutput.result.RefreshToken = NoString
    /\ jsonOutput.result.AccessToken # NoString


\* C28: whenever the run reports success and prints its output, none of
\* access_token, refresh_token and instance_url in that output is empty.
C28_PrintedFieldsNonEmpty ==
    jsonOutput.printed =>
        /\ jsonOutput.result.AccessToken # NoString
        /\ jsonOutput.result.RefreshToken # NoString
        /\ jsonOutput.result.InstanceURL # NoString
        /\ \A m \in TokenMembers : JSONTextMember(jsonOutput.text, m) # NoString


\* The part of the Session the claim names.
Session == <<state, clientID, clientSecret, redirectURI>>

\* C29: the state token is generated once per run (one call of
\* generateState, and the token once set is never replaced), and every step
\* of handling a request, from its acceptance over each of the four
\* classification branches to the signal and the flush, leaves state,
\* clientID, clientSecret and redirectURI as they were.
C29_HandlersKeepSession ==
    /\ [](/\ Len(issued) <= 1
          /\ state # NoString => issued = <<state>>
          /\ srv # "none" => Len(issued) = 1)
    /\ [][state # NoString => state' = state]_vars
    /\ [][(hpc' # hpc \/ hresp' # hresp \/ hstored' # hstored \/ signalledBy' # signalledBy)
             => Session' = Session]_vars

\* C29's case: two callback requests were handled on different branches, one
\* answered with the success page and one refused, and the Session still
\* holds the one generated token.
C29_Witness ==
    /\ \E h \in Handlers : hresp[h].status = StatusOK /\ hpc[h] = "flushed"
    /\ \E h \in Handlers : hresp[h].status = StatusBadRequest /\ hstored[h].error # NoString
    /\ state = issued[1]
    /\ state # NoString


\* Connection h carries a /callback request whose state parameter is absent
\* or empty.
NoStateGiven(h) ==
    /\ hreq[h].path = callbackPath
    /\ ParamOf(h, <<"s","t","a","t","e">>) = NoString

\* C30: the state token is generated, and is not empty, before the listener
\* is started, so whenever a request is being handled the expected state is
\* that generated token; a request whose state parameter is absent or empty
\* never passes the state check: its code is not stored and it is not
\* answered with the success page.
C30_StateSetBeforeListening ==
    /\ srv # "none" => (state # NoString /\ issued = <<state>>)
    /\ \A h \in Handlers :
          /\ hpc[h] # "idle" => (state # NoString /\ issued = <<state>>)
          /\ NoStateGiven(h) =>
                /\ hpc[h] # "codecheck"
                /\ ~hstored[h].wroteCode
                /\ hresp[h].status # StatusOK
                /\ (Answered(h) /\ ParamOf(h, <<"e","r","r","o","r">>) = NoString) =>
                      /\ hresp[h].status = StatusBadRequest
                      /\ hstored[h].error = InvalidStateParameter

\* C30's case: a request with a code and without a state value was refused
\* as an invalid state in a run whose token came from the clock fallback.
C30_Witness ==
    \E h \in Handlers :
        /\ NoStateGiven(h)
        /\ ParamOf(h, <<"c","o","d","e">>) # NoString
        /\ ParamOf(h, <<"e","r","r","o","r">>) = NoString
        /\ Answered(h)
        /\ hstored[h].error = InvalidStateParameter
        /\ state # NoString
        /\ Len(state) < MinStateLength


\* C31: the authorization code runAuth passes to exchangeCodeForTokens is
\* never empty, however the callback handlers interleave with runAuth's
\* reads of authError and authCode.
C31_ExchangedCodeNonEmpty ==
    /\ exchange.called => exchange.code # NoString
    /\ \A i \in 1..Len(posts) : ValuesGet(posts[i].form, <<"c","o","d","e">>) # NoString


\* Connection h carries a request for a path other than /callback.
OtherPath(h) == hreq[h] # NoRequest /\ hreq[h].path # callbackPath

\* C32: a request for any path other than /callback gives no outcome and no
\* signal: it is answered 404, nothing is stored for it, it is never the
\* request that signalled runAuth, and the steps that accept and answer it
\* leave authCode, authError, the signal and runAuth's position unchanged.
C32_OtherPathsHaveNoEffect ==
    /\ [](\A h \in Handlers :
             OtherPath(h) =>
                /\ hresp[h].status = StatusNotFound
                /\ hstored[h] = NothingStored
                /\ signalledBy # h
                /\ hpc[h] \in {"returned", "flushed"})
    /\ [][\A h \in Handlers :
             (OtherPath(h)' /\ hpc'[h] # hpc[h]) =>
                 UNCHANGED <<authCode, authError, signalledBy, pc, hstored>>]_vars

\* C32's case: a request for /favicon.ico was answered while runAuth waits,
\* and runAuth still waits with no outcome stored.
C32_Witness ==
    \E h \in Handlers :
        /\ OtherPath(h)
        /\ hpc[h] = "flushed"
        /\ pc = "wait"
        /\ signalledBy = 0
        /\ authCode = NoString
        /\ authError = NoString
        /\ ENABLED (\E g \in Handlers : Accept(g))

====
